---- MODULE Spec2Model ----
(***************************************************************************)
(* Event-log normalisation of process_performance_indicators: the column   *)
(* standardisation, the classification of a log into one of four shapes,   *)
(* the splitting of atomic and production-style rows into start/complete   *)
(* events, the start/complete matcher (match, match_all), the assignment   *)
(* of instance identifiers, and the instance-level start lookup; then the  *)
(* case, activity and group accessors and count indicators, safe_division, *)
(* and the two indicator runners with the function-level cache.            *)
(*                                                                         *)
(* A table (pandas DataFrame) is a record [columns, rows]: the set of its  *)
(* column names and the sequence of its rows, each row a function from the *)
(* column names to values.  Row positions 1..Len(rows) stand for the index *)
(* labels after reset_index.  Timestamps are instants, modelled as         *)
(* naturals; case ids and activity names are strings.                      *)
(***************************************************************************)
EXTENDS Integers, Sequences, FiniteSets, TLC

VARIABLES
    mapping,            \* the StandardColumnMapping handed to the formatter, or
                        \* the one with the slots a dict handed to it sets
    mapping_type,       \* the type of the mapping argument
    dict_items,         \* the items of a dict argument, in insertion order
    event_log,          \* the raw table, under its source column names
    pc,                 \* "raw" before event_log_formatter has run, "done" after,
                        \* "failed" when it raised,
                        \* "again" after a second call on the table returned
    standard_named_log, \* the table after _standardize_columns and _convert_standard_types
    log_type,           \* the EventLogType _detect_log_type returned
    combined_log,       \* the table handed to convert_to_explicit_interval_log
    matches,            \* match_all's pairs <<start index, complete index>>, all cases
    instance_of,        \* the instance id given to each row of combined_log
    canonical,          \* the table event_log_formatter returns
    reformatted,        \* the table a second call returns, given `canonical`
    lookup,             \* the last instance-level start lookup and its result
    activity_lookup,    \* the last activity-level instance count and its result
    raised,             \* the error event_log_formatter raised, if it did
    indicator_log,      \* the formatted table handed to an indicator or accessor
    indicator_call,     \* the indicator or accessor called last, with its arguments
    indicator_result,   \* what that call returned or raised
    runner_call,        \* the call of run_indicators or run_indicators_cached
    runner_pc,          \* "idle" before the call, "wrapped" once the modules
                        \* are wrapped, "running" in the loop over `selected`,
                        \* "returned" or "escaped" once the call is over
    selected,           \* the indicator specs select_indicators returned
    position,           \* the position in `selected` of the next indicator
    result_rows,        \* the result rows appended so far
    invoked,            \* the positions of the indicators that were invoked
    bound,              \* what each indicator module binds its public
                        \* functions to: "original" or "wrapper"
    wrapped_modules,    \* the cached runner's dict: each wrapped module with
                        \* its originals, in insertion order
    cache,              \* the cache the wrappers share: the entries, each a
                        \* key and the stored result, in insertion order
    wrapper_calls,      \* the calls made through a wrapper, each with what it
                        \* gave and what the original gives
    runner_raised       \* the exception that escaped the runner, if one did

formatter_vars == <<mapping, mapping_type, dict_items, event_log, pc,
                    standard_named_log, log_type, combined_log, matches,
                    instance_of, canonical, reformatted, lookup,
                    activity_lookup, raised>>

indicator_vars == <<indicator_log, indicator_call, indicator_result>>

\* the variables the formatter and the lookups on its table leave alone
runner_vars == <<runner_call, runner_pc, selected, position, result_rows, invoked,
                 bound, wrapped_modules, cache, wrapper_calls, runner_raised>>

library_vars == <<indicator_vars, runner_vars>>

vars == <<formatter_vars, library_vars>>

(***************************************************************************)
(* Bounds of the model.                                                    *)
(***************************************************************************)
MaxRows == 2    \* a raw table has at most MaxRows rows
MaxTime == 2    \* timestamps are 1..MaxTime

SortedCaseIds == <<"c1", "c2">>   \* the case ids, in string order
CaseIds == {SortedCaseIds[k] : k \in 1..Len(SortedCaseIds)}
Activities == {"A", "B"}
Timestamps == 1..MaxTime
Resources == {"r1", "r2"}
DeclaredInstanceIds == {1, 2}     \* a raw log declares its instance ids as integers

None == "None"

(***************************************************************************)
(* constants.py                                                            *)
(***************************************************************************)
CASE_ID == "case:concept:name"
ACTIVITY == "concept:name"
TIMESTAMP == "time:timestamp"
START_TIMESTAMP == "start_timestamp"
ORG_RESOURCE == "org:resource"
LIFECYCLE_TRANSITION == "lifecycle:transition"
INSTANCE_ID == "concept:instance"

START == "start"
COMPLETE == "complete"

\* EventLogType
ATOMIC == "ATOMIC"
DERIVABLE_INTERVAL == "DERIVABLE_INTERVAL"
PRODUCTION_STYLE == "PRODUCTION_STYLE"
EXPLICIT_INTERVAL == "EXPLICIT_INTERVAL"

(***************************************************************************)
(* column_mapping.py                                                       *)
(***************************************************************************)
\* StandardColumnMapping._field_to_standard, for the slots the core reads and
\* one of the optional attributes
FieldToStandard ==
    [case_id_key |-> CASE_ID,
     activity_key |-> ACTIVITY,
     timestamp_key |-> TIMESTAMP,
     start_timestamp_key |-> START_TIMESTAMP,
     resource_key |-> ORG_RESOURCE,
     lifecycle_type_key |-> LIFECYCLE_TRANSITION,
     instance_key |-> INSTANCE_ID]

\* StandardColumnMapping.to_standard_mapping: standard name -> log column name,
\* for the slots that are not None
ToStandardMapping(m) ==
    LET fields == {f \in DOMAIN m : m[f] # None}
    IN  [cn \in {FieldToStandard[f] : f \in fields} |->
            m[CHOOSE f \in fields : FieldToStandard[f] = cn]]

\* the types of a mapping argument
STRUCTURED == "StandardColumnMapping"
DICT == "dict"

\* STANDARD_COLUMN_NAMES: the values of StandardColumnNames
STANDARD_COLUMN_NAMES == {FieldToStandard[f] : f \in DOMAIN FieldToStandard}

\* the fields of StandardColumnMapping in their order (asdict)
FieldOrder ==
    <<"case_id_key", "activity_key", "timestamp_key", "start_timestamp_key",
      "resource_key", "lifecycle_type_key", "instance_key">>

\* to_standard_mapping as the dict it builds: its items
\* <<standard name, log column name>> in insertion order
StandardItems(m) ==
    LET set == SelectSeq(FieldOrder, LAMBDA f : m[f] # None)
    IN  [k \in 1..Len(set) |-> <<FieldToStandard[set[k]], m[set[k]]>>]

\* convert_to_standard_mapping: a dict is returned as it is
ConvertToStandardMapping(type, items, m) ==
    IF type = DICT THEN items ELSE StandardItems(m)

\* an error raised, with the name its message gives, and no error
Error(exception, name) == [raised |-> exception, names |-> name]
NoError == Error(None, None)

\* the first position of `items` that satisfies Test
First(items, Test(_)) ==
    CHOOSE k \in 1..Len(items) : Test(items[k]) /\ \A j \in 1..(k - 1) : ~Test(items[j])

\* a variant of validate_column_mapping that accepts every key
ValidateColumnMappingAnyKey(items) == NoError

\* validate_column_mapping(mapping): the first key that is no standard column
\* name raises a ValueError that names it
ValidateColumnMapping(items) ==
    LET Invalid(item) == item[1] \notin STANDARD_COLUMN_NAMES
    IN  IF \E k \in 1..Len(items) : Invalid(items[k])
        THEN Error("ValueError", items[First(items, Invalid)][1])
        ELSE NoError

\* validate_column_mapping(standard_mapping, set(event_log.columns)): the
\* keys are validated, and a mandatory standard column whose log column is
\* not in the table raises a mapping error
ValidateColumnMappingInLog(items, columns) ==
    LET Missing(item) ==
            /\ item[1] \in {CASE_ID, ACTIVITY, TIMESTAMP}
            /\ item[2] \notin columns
    IN  IF ValidateColumnMapping(items) # NoError
        THEN ValidateColumnMapping(items)
        ELSE IF \E k \in 1..Len(items) : Missing(items[k])
        THEN Error("ColumnMappingError", items[First(items, Missing)][1])
        ELSE NoError

(***************************************************************************)
(* The inputs: a mapping and a raw table whose columns are the mapped      *)
(* source columns.                                                         *)
(***************************************************************************)
\* the source log's name for each slot's column
SourceColumn ==
    [case_id_key |-> "Case",
     activity_key |-> "Activity",
     timestamp_key |-> "Complete Timestamp",
     start_timestamp_key |-> "Start Timestamp",
     resource_key |-> "Resource",
     lifecycle_type_key |-> "Lifecycle",
     instance_key |-> "Instance"]

MandatorySlots == {"case_id_key", "activity_key", "timestamp_key"}
ShapeSlots == {"start_timestamp_key", "lifecycle_type_key", "instance_key"}
AttributeSlots == {"resource_key"}

MappingOf(set) ==
    [f \in DOMAIN FieldToStandard |->
        IF f \in MandatorySlots \cup set THEN SourceColumn[f] ELSE None]

\* every combination of the optional slots being set or None
AllMappings == {MappingOf(s) : s \in SUBSET (ShapeSlots \cup AttributeSlots)}

\* the four mappings that set no slot their shape leaves uninterpreted
ShapeMappings ==
    {MappingOf({}),
     MappingOf({"lifecycle_type_key"}),
     MappingOf({"start_timestamp_key"}),
     MappingOf({"lifecycle_type_key", "instance_key"})}

SourceRow(m, c, a, t, s, r, l, i) ==
    [col \in {m[f] : f \in {f \in DOMAIN m : m[f] # None}} |->
        CASE col = SourceColumn.case_id_key -> c
          [] col = SourceColumn.activity_key -> a
          [] col = SourceColumn.timestamp_key -> t
          [] col = SourceColumn.start_timestamp_key -> s
          [] col = SourceColumn.resource_key -> r
          [] col = SourceColumn.lifecycle_type_key -> l
          [] OTHER -> i]

\* the activity names of a raw table: the formatter reads the activity of a
\* row only in the matcher's filter, which the tables without a start
\* timestamp, a resource or declared instances exercise with two names; the
\* other tables have one
SourceActivities(m) ==
    IF m.start_timestamp_key # None \/ m.instance_key # None \/ m.resource_key # None
    THEN {"A"} ELSE Activities

SourceRows(m) ==
    {SourceRow(m, c, a, t, s, r, l, i) :
        c \in CaseIds, a \in SourceActivities(m), t \in Timestamps,
        s \in IF m.start_timestamp_key # None THEN Timestamps ELSE {0},
        r \in IF m.resource_key # None THEN Resources ELSE {None},
        l \in IF m.lifecycle_type_key # None THEN {START, COMPLETE} ELSE {None},
        i \in IF m.instance_key # None THEN DeclaredInstanceIds ELSE {None}}

\* the ATOMIC mapping with a resource
AttributeMappings == {MappingOf({"resource_key"})}

\* the other mappings are tried on tables of at most one row
RowBound(m) == IF m \in ShapeMappings \cup AttributeMappings THEN MaxRows ELSE 1

\* the tables of at most n rows with the columns m names
TablesUpTo(m, n) ==
    {[columns |-> {m[f] : f \in {f \in DOMAIN m : m[f] # None}}, rows |-> rs] :
        rs \in UNION {[1..k -> SourceRows(m)] : k \in 0..n}}

SourceTables(m) == TablesUpTo(m, RowBound(m))

EmptyTable == [columns |-> {}, rows |-> <<>>]
NoLookup == [instance_id |-> None, result |-> [raised |-> None, rows |-> {}]]
NoActivityLookup == [activity_name |-> None, result |-> [raised |-> None, count |-> 0]]
NoCall == [function |-> None]
NoResult == [raised |-> None]

\* no indicator has been called
IndicatorIdle ==
    /\ indicator_log = EmptyTable
    /\ indicator_call = NoCall
    /\ indicator_result = NoResult

\* the modules run_indicators_cached wraps that hold the indicators of the
\* model's registry, in the order of modules_to_wrap
ModulesToWrap == <<"quality.cases", "flexibility.cases", "general.cases", "general.groups">>

\* the public functions, defined in the module, of each module of
\* ModulesToWrap (those the indicators of the model call)
PublicFunctions(module) ==
    CASE module = "quality.cases" -> {"automated_activity_count"}
      [] module = "flexibility.cases" ->
            {"activity_and_role_count_ratio", "directly_follows_relations_count",
             "optional_activity_count", "optionality"}
      [] module = "general.cases" -> {"activity_count", "role_count"}
      [] module = "general.groups" -> {"case_count", "expected_activity_count"}

\* every module binds each of its public functions to the function it defines
Originals ==
    [module \in {ModulesToWrap[k] : k \in 1..Len(ModulesToWrap)} |->
        [name \in PublicFunctions(module) |-> "original"]]

\* neither runner has been called
RunnerIdle ==
    /\ runner_call = NoCall
    /\ runner_pc = "idle"
    /\ selected = <<>>
    /\ position = 1
    /\ result_rows = <<>>
    /\ invoked = {}
    /\ bound = Originals
    /\ wrapped_modules = <<>>
    /\ cache = <<>>
    /\ wrapper_calls = <<>>
    /\ runner_raised = NoError

(***************************************************************************)
(* formatting/log_formatter.py                                             *)
(***************************************************************************)
\* a variant of _detect_log_type that tests the start timestamp before the
\* lifecycle
DetectLogTypeStartFirst(column_mapping) ==
    LET has_lifecycle == column_mapping.lifecycle_type_key # None
        has_instance == column_mapping.instance_key # None
        has_start_timestamp == column_mapping.start_timestamp_key # None
    IN  IF has_start_timestamp THEN PRODUCTION_STYLE
        ELSE IF has_lifecycle /\ has_instance THEN EXPLICIT_INTERVAL
        ELSE IF has_lifecycle /\ ~has_instance THEN DERIVABLE_INTERVAL
        ELSE ATOMIC

\* _detect_log_type
DetectLogType(column_mapping) ==
    LET has_lifecycle == column_mapping.lifecycle_type_key # None
        has_instance == column_mapping.instance_key # None
        has_start_timestamp == column_mapping.start_timestamp_key # None
    IN  IF has_lifecycle /\ has_instance THEN EXPLICIT_INTERVAL
        ELSE IF has_lifecycle /\ ~has_instance THEN DERIVABLE_INTERVAL
        ELSE IF has_start_timestamp /\ ~has_lifecycle THEN PRODUCTION_STYLE
        ELSE ATOMIC

\* a variant of _standardize_columns that keeps the columns the core reads
\* and drops the attributes
StandardizeColumnsCoreOnly(log, column_mapping) ==
    LET standard_mapping == ToStandardMapping(column_mapping)
        kept == DOMAIN standard_mapping \ {ORG_RESOURCE}
    IN  [columns |-> kept,
         rows |-> [k \in 1..Len(log.rows) |->
                     [cn \in kept |-> log.rows[k][standard_mapping[cn]]]]]

\* _standardize_columns: rename the mapped columns to their standard names
\* and keep only those
StandardizeColumns(log, column_mapping) ==
    LET standard_mapping == ToStandardMapping(column_mapping)
    IN  [columns |-> DOMAIN standard_mapping,
         rows |-> [k \in 1..Len(log.rows) |->
                     [cn \in DOMAIN standard_mapping |->
                         log.rows[k][standard_mapping[cn]]]]]

\* DataFrame column assignment and DataFrame.drop(columns=...)
SetColumn(row, col, val) ==
    [c \in DOMAIN row \cup {col} |-> IF c = col THEN val ELSE row[c]]

DropColumn(row, col) == [c \in DOMAIN row \ {col} |-> row[c]]

WithoutColumn(log, col) ==
    [columns |-> log.columns \ {col},
     rows |-> [k \in 1..Len(log.rows) |-> DropColumn(log.rows[k], col)]]

\* the dtype of a column of integers and of a column of strings
INT64 == "int64"
OBJECT == "object"

\* Series.astype(str) on a value of a column of the given dtype: the decimal
\* digits of an integer, a string as it is
AsTypeStr(value, dtype) == IF dtype = INT64 THEN ToString(value) ELSE value

\* _convert_standard_types: case id and activity (strings already) and, if
\* present, the instance column are converted to strings
ConvertStandardTypes(log_df, instance_dtype) ==
    [columns |-> log_df.columns,
     rows |-> [k \in 1..Len(log_df.rows) |->
                 IF INSTANCE_ID \in log_df.columns
                 THEN SetColumn(log_df.rows[k], INSTANCE_ID,
                                AsTypeStr(log_df.rows[k][INSTANCE_ID], instance_dtype))
                 ELSE log_df.rows[k]]]

\* event_log_formatter up to the dispatch: the standardized table with its
\* standard types
StandardNamedLog(log, column_mapping, instance_dtype) ==
    ConvertStandardTypes(StandardizeColumns(log, column_mapping), instance_dtype)

\* a variant in which _standardize_columns does not call the validation
FormatErrorNoValidation(log, type, items, m) ==
    LET standard_mapping == ConvertToStandardMapping(type, items, m)
        Absent(item) == item[2] \notin log.columns
    IN  IF \E k \in 1..Len(standard_mapping) : Absent(standard_mapping[k])
        THEN Error("KeyError", standard_mapping[First(standard_mapping, Absent)][2])
        ELSE IF type = DICT THEN Error("AttributeError", "lifecycle_type_key")
        ELSE NoError

\* the error event_log_formatter raises before it dispatches on the log type,
\* if any: from the validation in _standardize_columns, from the selection of
\* the mapped columns (a KeyError for columns that are not in the table; the
\* first is named here), or from _detect_log_type, which reads the slots as
\* attributes of the mapping argument
FormatError(log, type, items, m) ==
    LET standard_mapping == ConvertToStandardMapping(type, items, m)
        validation == ValidateColumnMappingInLog(standard_mapping, log.columns)
        Absent(item) == item[2] \notin log.columns
    IN  IF validation # NoError THEN validation
        ELSE IF \E k \in 1..Len(standard_mapping) : Absent(standard_mapping[k])
        THEN Error("KeyError", standard_mapping[First(standard_mapping, Absent)][2])
        ELSE IF type = DICT THEN Error("AttributeError", "lifecycle_type_key")
        ELSE NoError

\* the order of case ids as strings
CaseRank(c) == CHOOSE k \in 1..Len(SortedCaseIds) : SortedCaseIds[k] = c

RowBefore(r, s) ==
    \/ CaseRank(r[CASE_ID]) < CaseRank(s[CASE_ID])
    \/ r[CASE_ID] = s[CASE_ID] /\ r[TIMESTAMP] < s[TIMESTAMP]

\* a variant of sort_values that puts the later of two rows with equal keys
\* first
SortValuesTiesReversed(rows) ==
    LET n == Len(rows)
        pos(k) == 1 + Cardinality({j \in 1..n :
                        \/ RowBefore(rows[j], rows[k])
                        \/ ~RowBefore(rows[k], rows[j]) /\ j > k})
    IN  [p \in 1..n |-> rows[CHOOSE k \in 1..n : pos(k) = p]]

\* sort_values(by=[CASE_ID, TIMESTAMP]) followed by reset_index(drop=True):
\* a sort on several keys is stable
SortValues(rows) ==
    LET n == Len(rows)
        pos(k) == 1 + Cardinality({j \in 1..n :
                        \/ RowBefore(rows[j], rows[k])
                        \/ ~RowBefore(rows[k], rows[j]) /\ j < k})
    IN  [p \in 1..n |-> rows[CHOOSE k \in 1..n : pos(k) = p]]

\* a variant of _process_atomic_log that tags both copies as complete events
ProcessAtomicLogBothComplete(log_df) ==
    LET n == Len(log_df.rows)
        complete_events ==
            [k \in 1..n |-> SetColumn(log_df.rows[k], LIFECYCLE_TRANSITION, COMPLETE)]
    IN  [columns |-> log_df.columns \cup {LIFECYCLE_TRANSITION},
         rows |-> SortValues(complete_events \o complete_events)]

\* a variant of _process_atomic_log that does not add the start events
ProcessAtomicLogNoStarts(log_df) ==
    LET n == Len(log_df.rows)
        complete_events ==
            [k \in 1..n |-> SetColumn(log_df.rows[k], LIFECYCLE_TRANSITION, COMPLETE)]
    IN  [columns |-> log_df.columns \cup {LIFECYCLE_TRANSITION},
         rows |-> SortValues(complete_events)]

\* _process_atomic_log, up to the call of convert_to_explicit_interval_log
ProcessAtomicLog(log_df) ==
    LET n == Len(log_df.rows)
        complete_events ==
            [k \in 1..n |-> SetColumn(log_df.rows[k], LIFECYCLE_TRANSITION, COMPLETE)]
        start_events ==
            [k \in 1..n |-> SetColumn(log_df.rows[k], LIFECYCLE_TRANSITION, START)]
    IN  [columns |-> log_df.columns \cup {LIFECYCLE_TRANSITION},
         rows |-> SortValues(start_events \o complete_events)]

\* a variant of _process_production_style_log whose start events keep the
\* row's timestamp
ProcessProductionStyleLogKeepTimestamp(log_df) ==
    LET n == Len(log_df.rows)
        start_events ==
            [k \in 1..n |->
                SetColumn(DropColumn(log_df.rows[k], START_TIMESTAMP),
                          LIFECYCLE_TRANSITION, START)]
        complete_events ==
            [k \in 1..n |->
                SetColumn(DropColumn(log_df.rows[k], START_TIMESTAMP),
                          LIFECYCLE_TRANSITION, COMPLETE)]
    IN  [columns |-> (log_df.columns \ {START_TIMESTAMP}) \cup {LIFECYCLE_TRANSITION},
         rows |-> SortValues(start_events \o complete_events)]

\* _process_production_style_log, up to the call of convert_to_explicit_interval_log
ProcessProductionStyleLog(log_df) ==
    LET n == Len(log_df.rows)
        start_events ==
            [k \in 1..n |->
                SetColumn(
                    DropColumn(
                        SetColumn(log_df.rows[k], TIMESTAMP,
                                  log_df.rows[k][START_TIMESTAMP]),
                        START_TIMESTAMP),
                    LIFECYCLE_TRANSITION, START)]
        complete_events ==
            [k \in 1..n |->
                SetColumn(DropColumn(log_df.rows[k], START_TIMESTAMP),
                          LIFECYCLE_TRANSITION, COMPLETE)]
    IN  [columns |-> (log_df.columns \ {START_TIMESTAMP}) \cup {LIFECYCLE_TRANSITION},
         rows |-> SortValues(start_events \o complete_events)]

\* _process_derivable_interval_log, up to the call of convert_to_explicit_interval_log
ProcessDerivableIntervalLog(log_df) == log_df

\* a variant of _process_explicit_interval_log that drops a row equal to an
\* earlier one (drop_duplicates)
ProcessExplicitIntervalLogDropDuplicates(log_df) ==
    LET sorted == SortValues(log_df.rows)
        kept == SelectSeq([k \in 1..Len(sorted) |-> k],
                          LAMBDA k : \A j \in 1..(k - 1) : sorted[j] # sorted[k])
    IN  [columns |-> log_df.columns,
         rows |-> [p \in 1..Len(kept) |-> sorted[kept[p]]]]

\* a variant of _process_explicit_interval_log that does not sort
ProcessExplicitIntervalLogUnsorted(log_df) == log_df

\* _process_explicit_interval_log
ProcessExplicitIntervalLog(log_df) ==
    [columns |-> log_df.columns, rows |-> SortValues(log_df.rows)]

(***************************************************************************)
(* match.py                                                                *)
(***************************************************************************)
\* the rows of one case, by index and in row order: a group of
\* event_log.groupby(CASE_ID)
CaseLog(rows, case_id) ==
    SelectSeq([k \in 1..Len(rows) |-> k], LAMBDA k : rows[k][CASE_ID] = case_id)

\* a variant of idxmax that picks the earliest timestamp (idxmin)
IdxMin(rows, indices) ==
    LET earliest == CHOOSE j \in 1..Len(indices) :
                    /\ \A i \in 1..Len(indices) :
                          rows[indices[j]][TIMESTAMP] <= rows[indices[i]][TIMESTAMP]
                    /\ \A i \in 1..(j - 1) :
                          rows[indices[j]][TIMESTAMP] < rows[indices[i]][TIMESTAMP]
    IN  indices[earliest]

\* idxmax of the timestamps of the rows `indices`: the first index that
\* carries the maximum
IdxMax(rows, indices) ==
    LET latest == CHOOSE j \in 1..Len(indices) :
                    /\ \A i \in 1..Len(indices) :
                          rows[indices[i]][TIMESTAMP] <= rows[indices[j]][TIMESTAMP]
                    /\ \A i \in 1..(j - 1) :
                          rows[indices[i]][TIMESTAMP] < rows[indices[j]][TIMESTAMP]
    IN  indices[latest]

\* a variant of match whose filter forgets the lifecycle transition
MatchAnyTransition(rows, case_log, complete_event) ==
    LET case_id == rows[complete_event][CASE_ID]
        activity == rows[complete_event][ACTIVITY]
        complete_timestamp == rows[complete_event][TIMESTAMP]
        potential_matches ==
            SelectSeq(case_log, LAMBDA k :
                /\ rows[k][CASE_ID] = case_id
                /\ rows[k][ACTIVITY] = activity
                /\ rows[k][TIMESTAMP] <= complete_timestamp)
    IN  IF potential_matches = <<>>
        THEN complete_event
        ELSE IdxMax(rows, potential_matches)

\* a variant of match whose filter forgets the timestamp
MatchAnyTime(rows, case_log, complete_event) ==
    LET case_id == rows[complete_event][CASE_ID]
        activity == rows[complete_event][ACTIVITY]
        potential_matches ==
            SelectSeq(case_log, LAMBDA k :
                /\ rows[k][CASE_ID] = case_id
                /\ rows[k][ACTIVITY] = activity
                /\ rows[k][LIFECYCLE_TRANSITION] = START)
    IN  IF potential_matches = <<>>
        THEN complete_event
        ELSE IdxMax(rows, potential_matches)

\* a variant of match whose filter wants the start strictly earlier
MatchStrictlyEarlier(rows, case_log, complete_event) ==
    LET case_id == rows[complete_event][CASE_ID]
        activity == rows[complete_event][ACTIVITY]
        complete_timestamp == rows[complete_event][TIMESTAMP]
        potential_matches ==
            SelectSeq(case_log, LAMBDA k :
                /\ rows[k][CASE_ID] = case_id
                /\ rows[k][ACTIVITY] = activity
                /\ rows[k][LIFECYCLE_TRANSITION] = START
                /\ rows[k][TIMESTAMP] < complete_timestamp)
    IN  IF potential_matches = <<>>
        THEN complete_event
        ELSE IdxMax(rows, potential_matches)

\* match(case_log, complete_event), for a complete event: the index of the
\* start event it returns, or the complete event's own index when there is
\* none.  (Line 38 names the timestamp column by the literal "timestamp";
\* the model reads the column line 30 filters on.)
Match(rows, case_log, complete_event) ==
    LET case_id == rows[complete_event][CASE_ID]
        activity == rows[complete_event][ACTIVITY]
        complete_timestamp == rows[complete_event][TIMESTAMP]
        potential_matches ==
            SelectSeq(case_log, LAMBDA k :
                /\ rows[k][CASE_ID] = case_id
                /\ rows[k][ACTIVITY] = activity
                /\ rows[k][LIFECYCLE_TRANSITION] = START
                /\ rows[k][TIMESTAMP] <= complete_timestamp)
    IN  IF potential_matches = <<>>
        THEN complete_event
        ELSE IdxMax(rows, potential_matches)

\* a variant of match_all's loop in which a START event that has been matched
\* leaves the pool
RECURSIVE MatchEachConsuming(_, _, _)
MatchEachConsuming(rows, case_log, complete_events) ==
    IF complete_events = <<>> THEN <<>>
    ELSE LET n == Len(complete_events)
             before == MatchEachConsuming(rows, case_log, SubSeq(complete_events, 1, n - 1))
             taken == {before[j][1] : j \in 1..Len(before)} \ {before[j][2] : j \in 1..Len(before)}
             pool == SelectSeq(case_log, LAMBDA k : k \notin taken)
         IN  Append(before, <<Match(rows, pool, complete_events[n]), complete_events[n]>>)

\* the loop of match_all over the complete events, in the order given: every
\* complete event is matched against the whole case log
MatchEach(rows, case_log, complete_events) ==
    [j \in 1..Len(complete_events) |->
        <<Match(rows, case_log, complete_events[j]), complete_events[j]>>]

\* match_all(case_log): one pair <<start_event, complete_event>> for every
\* complete event of the case, in row order
MatchAll(rows, case_log) ==
    MatchEach(rows, case_log,
              SelectSeq(case_log, LAMBDA k : rows[k][LIFECYCLE_TRANSITION] = COMPLETE))

(***************************************************************************)
(* conversions.py: convert_to_explicit_interval_log                        *)
(***************************************************************************)
\* the loop over the groups of event_log.groupby(CASE_ID), which come in the
\* order of their keys: the pairs of the first k cases
RECURSIVE MatchCases(_, _)
MatchCases(rows, k) ==
    IF k = 0 THEN <<>>
    ELSE MatchCases(rows, k - 1) \o MatchAll(rows, CaseLog(rows, SortedCaseIds[k]))

\* the j-th identifier the generator hands out
Uuid(j) == "u" \o ToString(j)

\* every pair, in order, gets a fresh identifier, written to its start row
\* and to its complete row; a row no pair names keeps None
AssignInstanceIds(rows, pairs) ==
    [k \in 1..Len(rows) |->
        LET named == {j \in 1..Len(pairs) : pairs[j][1] = k \/ pairs[j][2] = k}
        IN  IF named = {} THEN None
            ELSE Uuid(CHOOSE j \in named : \A i \in named : i <= j)]

\* the table returned: the rows with their instance ids, sorted by case and
\* timestamp
ConvertToExplicitIntervalLog(log, ids) ==
    [columns |-> log.columns \cup {INSTANCE_ID},
     rows |-> SortValues([k \in 1..Len(log.rows) |->
                            SetColumn(log.rows[k], INSTANCE_ID, ids[k])])]

\* convert_to_explicit_interval_log(split) as a function of the split table
ConvertedTable(split) ==
    ConvertToExplicitIntervalLog(
        split,
        AssignInstanceIds(split.rows, MatchCases(split.rows, Len(SortedCaseIds))))

\* event_log_formatter(log, column_mapping) as a function of its arguments;
\* instance_dtype is the dtype of log's instance column, if it has one
EventLogFormatter(log, column_mapping, instance_dtype) ==
    LET snl == StandardNamedLog(log, column_mapping, instance_dtype)
        type == DetectLogType(column_mapping)
    IN  IF type = EXPLICIT_INTERVAL THEN ProcessExplicitIntervalLog(snl)
        ELSE IF type = DERIVABLE_INTERVAL
        THEN ConvertedTable(ProcessDerivableIntervalLog(snl))
        ELSE IF type = PRODUCTION_STYLE
        THEN ConvertedTable(ProcessProductionStyleLog(snl))
        ELSE ConvertedTable(ProcessAtomicLog(snl))

\* the mapping of every standard name among `columns` to itself
IdentityMapping(columns) ==
    [f \in DOMAIN FieldToStandard |->
        IF FieldToStandard[f] \in columns THEN FieldToStandard[f] ELSE None]

(***************************************************************************)
(* utils/instances.py                                                      *)
(***************************************************************************)
\* the rows of `log` with the given instance id and lifecycle transition
InstanceRows(log, instance_id, transition) ==
    {k \in 1..Len(log.rows) :
        /\ log.rows[k][INSTANCE_ID] = instance_id
        /\ log.rows[k][LIFECYCLE_TRANSITION] = transition}

\* _is_instance_id_valid
IsInstanceIdValid(log, instance_id) ==
    \E k \in 1..Len(log.rows) : log.rows[k][INSTANCE_ID] = instance_id

\* cpl
Cpl(log, instance_id) == InstanceRows(log, instance_id, COMPLETE)

\* a variant of _match without the fallback to the complete event
StartEventNoFallback(log, instance_id, complete_event) ==
    InstanceRows(log, instance_id, START)

\* _match(event_log, complete_event): the start rows of the complete event's
\* instance, or the complete event when it has none
StartEvent(log, instance_id, complete_event) ==
    LET start_event == InstanceRows(log, instance_id, START)
    IN  IF start_event = {} THEN complete_event ELSE start_event

\* start(event_log, instance_id): the rows returned, or the error raised
StartOf(log, instance_id) ==
    IF ~IsInstanceIdValid(log, instance_id)
    THEN [raised |-> "InstanceIdNotFoundError", rows |-> {}]
    ELSE IF Cpl(log, instance_id) = {}
    THEN [raised |-> "IndexError", rows |-> {}]
    ELSE [raised |-> None,
          rows |-> StartEvent(log, instance_id, Cpl(log, instance_id))]

(***************************************************************************)
(* helpers/activities.py, general/activities.py                            *)
(***************************************************************************)
\* a variant of _is_activity_name_valid that accepts every name
IsActivityNameValidAlways(log, activity_name) == TRUE

\* _is_activity_name_valid
IsActivityNameValid(log, activity_name) ==
    \E k \in 1..Len(log.rows) : log.rows[k][ACTIVITY] = activity_name

\* inst(event_log, activity_name): the instance ids on the activity's rows
\* (a missing id counts as one), or the error raised
Inst(log, activity_name) ==
    IF ~IsActivityNameValid(log, activity_name)
    THEN [raised |-> "ActivityNameNotFoundError", ids |-> {}]
    ELSE IF INSTANCE_ID \notin log.columns
    THEN [raised |-> "ColumnNotFoundError", ids |-> {}]
    ELSE [raised |-> None,
          ids |-> {log.rows[k][INSTANCE_ID] :
                      k \in {k \in 1..Len(log.rows) : log.rows[k][ACTIVITY] = activity_name}}]

\* activity_instance_count(event_log, activity_name)
ActivityInstanceCountOf(log, activity_name) ==
    [raised |-> Inst(log, activity_name).raised,
     count |-> Cardinality(Inst(log, activity_name).ids)]

(***************************************************************************)
(* The state machine: one call of event_log_formatter on a raw table, and   *)
(* instance-level and activity-level lookups on the table it returned.     *)
(***************************************************************************)
\* keys of a dict that are no standard column names
UnknownKeys == <<"not_a_real_field", "resource">>

\* the sequences of items with unknown keys a dict is given
UnknownItems ==
    LET item(k) == <<UnknownKeys[k], "X">>
    IN  {<<>>, <<item(1)>>, <<item(2)>>, <<item(1), item(2)>>, <<item(2), item(1)>>}

\* the dicts with the items of m and unknown keys before or after them
DictsOf(m) ==
    {u \o StandardItems(m) : u \in UnknownItems}
        \cup {StandardItems(m) \o u : u \in UnknownItems}

\* the tables of at most one row that lack one of the columns m names
TablesWithoutAColumn(m) ==
    {WithoutColumn(table, col) :
        table \in TablesUpTo(m, 1),
        col \in {m[f] : f \in {f \in DOMAIN m : m[f] # None}}}

\* a StandardColumnMapping with a table that has its columns; a dict, with
\* or without unknown keys, with such a table of at most one row; or either
\* with a table that lacks a column
Init ==
    /\ mapping \in AllMappings
    /\ \/ /\ mapping_type = STRUCTURED
          /\ dict_items = <<>>
          /\ event_log \in SourceTables(mapping)
       \/ /\ mapping_type = DICT
          /\ dict_items \in DictsOf(mapping)
          /\ event_log \in TablesUpTo(mapping, 1)
       \/ /\ mapping_type = STRUCTURED
          /\ dict_items = <<>>
          /\ event_log \in TablesWithoutAColumn(mapping)
       \/ /\ mapping_type = DICT
          /\ dict_items = StandardItems(mapping)
          /\ event_log \in TablesWithoutAColumn(mapping)
    /\ raised = NoError
    /\ pc = "raw"
    /\ standard_named_log = EmptyTable
    /\ log_type = None
    /\ combined_log = EmptyTable
    /\ matches = <<>>
    /\ instance_of = <<>>
    /\ canonical = EmptyTable
    /\ reformatted = EmptyTable
    /\ lookup = NoLookup
    /\ activity_lookup = NoActivityLookup
    /\ IndicatorIdle
    /\ RunnerIdle

\* event_log_formatter, up to the dispatch on the log type:
\* _standardize_columns, _convert_standard_types and _detect_log_type
Classified(type) ==
    /\ pc = "raw"
    /\ FormatError(event_log, mapping_type, dict_items, mapping) = NoError
    /\ DetectLogType(mapping) = type
    /\ standard_named_log' = StandardNamedLog(event_log, mapping, INT64)
    /\ log_type' = type
    /\ pc' = "done"
    /\ UNCHANGED <<mapping, mapping_type, dict_items, event_log, reformatted,
                   lookup, activity_lookup, raised>>
    /\ UNCHANGED library_vars

\* convert_to_explicit_interval_log(split): match_all on every case, an
\* instance id for every pair, and the table returned
Converted(split) ==
    LET pairs == MatchCases(split.rows, Len(SortedCaseIds))
        ids == AssignInstanceIds(split.rows, pairs)
    IN  /\ combined_log' = split
        /\ matches' = pairs
        /\ instance_of' = ids
        /\ canonical' = ConvertToExplicitIntervalLog(split, ids)

\* event_log_formatter on an ATOMIC log: _process_atomic_log
FormatAtomic ==
    /\ Classified(ATOMIC)
    /\ Converted(ProcessAtomicLog(StandardNamedLog(event_log, mapping, INT64)))

\* event_log_formatter on a PRODUCTION_STYLE log: _process_production_style_log
FormatProductionStyle ==
    /\ Classified(PRODUCTION_STYLE)
    /\ Converted(ProcessProductionStyleLog(StandardNamedLog(event_log, mapping, INT64)))

\* event_log_formatter on a DERIVABLE_INTERVAL log: _process_derivable_interval_log
FormatDerivableInterval ==
    /\ Classified(DERIVABLE_INTERVAL)
    /\ Converted(ProcessDerivableIntervalLog(StandardNamedLog(event_log, mapping, INT64)))

\* event_log_formatter on an EXPLICIT_INTERVAL log: _process_explicit_interval_log
FormatExplicitInterval ==
    /\ Classified(EXPLICIT_INTERVAL)
    /\ canonical' = ProcessExplicitIntervalLog(StandardNamedLog(event_log, mapping, INT64))
    /\ UNCHANGED <<combined_log, matches, instance_of>>

\* event_log_formatter raises before it has classified the log
FormatFails ==
    /\ pc = "raw"
    /\ FormatError(event_log, mapping_type, dict_items, mapping) # NoError
    /\ raised' = FormatError(event_log, mapping_type, dict_items, mapping)
    /\ pc' = "failed"
    /\ UNCHANGED <<mapping, mapping_type, dict_items, event_log,
                   standard_named_log, log_type, combined_log, matches,
                   instance_of, canonical, reformatted, lookup, activity_lookup>>
    /\ UNCHANGED library_vars

\* the instance ids a caller may ask for: those of the table, and one absent
LookupIds ==
    ({canonical.rows[k][INSTANCE_ID] : k \in 1..Len(canonical.rows)} \ {None})
        \cup {"absent"}

\* utils.instances.start(canonical, instance_id)
Start(instance_id) ==
    /\ pc = "done"
    /\ lookup = NoLookup
    /\ lookup' = [instance_id |-> instance_id,
                  result |-> StartOf(canonical, instance_id)]
    /\ UNCHANGED <<mapping, mapping_type, dict_items, event_log, pc,
                   standard_named_log, log_type, combined_log, matches,
                   instance_of, canonical, reformatted, activity_lookup, raised>>
    /\ UNCHANGED library_vars

\* general.activities.activity_instance_count(canonical, activity_name)
ActivityInstanceCount(activity_name) ==
    /\ pc = "done"
    /\ activity_lookup = NoActivityLookup
    /\ activity_lookup' = [activity_name |-> activity_name,
                           result |-> ActivityInstanceCountOf(canonical, activity_name)]
    /\ UNCHANGED <<mapping, mapping_type, dict_items, event_log, pc,
                   standard_named_log, log_type, combined_log, matches,
                   instance_of, canonical, reformatted, lookup, raised>>
    /\ UNCHANGED library_vars

\* event_log_formatter(canonical, the identity mapping): a second call on the
\* table returned for an EXPLICIT_INTERVAL log, whose instance column holds
\* strings by now
Reformat ==
    /\ pc = "done"
    /\ log_type = EXPLICIT_INTERVAL
    /\ lookup = NoLookup
    /\ activity_lookup = NoActivityLookup
    /\ reformatted' =
          EventLogFormatter(canonical, IdentityMapping(canonical.columns), OBJECT)
    /\ pc' = "again"
    /\ UNCHANGED <<mapping, mapping_type, dict_items, event_log,
                   standard_named_log, log_type, combined_log, matches,
                   instance_of, canonical, lookup, activity_lookup, raised>>
    /\ UNCHANGED library_vars

Next ==
    \/ FormatAtomic
    \/ FormatProductionStyle
    \/ FormatDerivableInterval
    \/ FormatExplicitInterval
    \/ FormatFails
    \/ \E instance_id \in LookupIds : Start(instance_id)
    \/ \E activity_name \in Activities : ActivityInstanceCount(activity_name)
    \/ Reformat

Spec == Init /\ [][Next]_vars

(***************************************************************************)
(* Properties                                                              *)
(***************************************************************************)
HasLifecycle == mapping.lifecycle_type_key # None
HasInstance == mapping.instance_key # None
HasStartTimestamp == mapping.start_timestamp_key # None

\* C1: once the log is classified, the shape is EXPLICIT_INTERVAL iff the
\* lifecycle and instance slots are both set, DERIVABLE_INTERVAL iff the
\* lifecycle slot is set and the instance slot is None, PRODUCTION_STYLE iff
\* the start-timestamp slot is set and the lifecycle slot is None, and ATOMIC
\* otherwise; it is one of the four shapes, whatever the table holds.
C1_ClassificationPriorityChain ==
    log_type # None =>
        /\ log_type \in {ATOMIC, DERIVABLE_INTERVAL, PRODUCTION_STYLE, EXPLICIT_INTERVAL}
        /\ log_type = EXPLICIT_INTERVAL <=> (HasLifecycle /\ HasInstance)
        /\ log_type = DERIVABLE_INTERVAL <=> (HasLifecycle /\ ~HasInstance)
        /\ log_type = PRODUCTION_STYLE <=> (HasStartTimestamp /\ ~HasLifecycle)
        /\ log_type = ATOMIC <=> (~HasLifecycle /\ ~HasStartTimestamp)

\* C1 witness: a non-empty log whose mapping sets both the lifecycle and the
\* start-timestamp slot has been classified, and the lifecycle won
C1_Witness ==
    /\ pc = "done"
    /\ HasLifecycle /\ HasStartTimestamp /\ ~HasInstance
    /\ Len(event_log.rows) = 1
    /\ log_type = DERIVABLE_INTERVAL

\* the shapes whose instance ids the formatter generates
Matched == pc = "done" /\ log_type # EXPLICIT_INTERVAL

Pairs == DOMAIN matches
StartOfPair(j) == matches[j][1]
CompleteOfPair(j) == matches[j][2]

\* row k of the table handed to the matcher is a START event of the case and
\* activity of row c, not later than row c
Eligible(k, c) ==
    LET rows == combined_log.rows
    IN  /\ rows[k][LIFECYCLE_TRANSITION] = START
        /\ rows[k][CASE_ID] = rows[c][CASE_ID]
        /\ rows[k][ACTIVITY] = rows[c][ACTIVITY]
        /\ rows[k][TIMESTAMP] <= rows[c][TIMESTAMP]

EligibleStarts(c) == {k \in 1..Len(combined_log.rows) : Eligible(k, c)}

RowsOf(log, transition) ==
    {k \in 1..Len(log.rows) : log.rows[k][LIFECYCLE_TRANSITION] = transition}

InstancesInOrder ==
    \A a \in RowsOf(canonical, START), c \in RowsOf(canonical, COMPLETE) :
        (/\ canonical.rows[a][INSTANCE_ID] # None
         /\ canonical.rows[a][INSTANCE_ID] = canonical.rows[c][INSTANCE_ID]
         /\ canonical.rows[a][CASE_ID] = canonical.rows[c][CASE_ID])
            => canonical.rows[a][TIMESTAMP] <= canonical.rows[c][TIMESTAMP]

Event(row) == DropColumn(row, INSTANCE_ID)
Occurrences(log, event) ==
    Cardinality({k \in 1..Len(log.rows) : Event(log.rows[k]) = event})

RawRows(case_id, activity, slot, t) ==
    {k \in 1..Len(event_log.rows) :
        /\ event_log.rows[k][mapping.case_id_key] = case_id
        /\ event_log.rows[k][mapping.activity_key] = activity
        /\ event_log.rows[k][mapping[slot]] = t}

\* the events of the split table with the given transition, case, activity
\* and timestamp
SplitRows(transition, case_id, activity, t) ==
    {k \in RowsOf(combined_log, transition) :
        /\ combined_log.rows[k][CASE_ID] = case_id
        /\ combined_log.rows[k][ACTIVITY] = activity
        /\ combined_log.rows[k][TIMESTAMP] = t}

\* C9: the split of an ATOMIC log of n rows has 2n rows, n START and n
\* COMPLETE, and for every case, activity and timestamp as many START rows and
\* as many COMPLETE rows as the log has rows with them.
C9_AtomicSplit ==
    (pc = "done" /\ log_type = ATOMIC) =>
        /\ Len(combined_log.rows) = 2 * Len(event_log.rows)
        /\ Cardinality(RowsOf(combined_log, START)) = Len(event_log.rows)
        /\ Cardinality(RowsOf(combined_log, COMPLETE)) = Len(event_log.rows)
        /\ \A c \in CaseIds, a \in Activities, t \in Timestamps :
              /\ Cardinality(SplitRows(START, c, a, t))
                    = Cardinality(RawRows(c, a, "timestamp_key", t))
              /\ Cardinality(SplitRows(COMPLETE, c, a, t))
                    = Cardinality(RawRows(c, a, "timestamp_key", t))

\* C9 witness: an ATOMIC log of two rows has been split
C9_Witness ==
    /\ pc = "done"
    /\ log_type = ATOMIC
    /\ Len(event_log.rows) = 2
    /\ Len(combined_log.rows) = 4

\* C10: the split of a PRODUCTION_STYLE log has, for every case, activity and
\* time, as many START rows as the log has rows that start then and as many
\* COMPLETE rows as the log has rows with that timestamp, and no row of it has
\* the start-timestamp column.
C10_ProductionSplit ==
    (pc = "done" /\ log_type = PRODUCTION_STYLE) =>
        /\ Len(combined_log.rows) = 2 * Len(event_log.rows)
        /\ \A c \in CaseIds, a \in Activities, t \in Timestamps :
              /\ Cardinality(SplitRows(START, c, a, t))
                    = Cardinality(RawRows(c, a, "start_timestamp_key", t))
              /\ Cardinality(SplitRows(COMPLETE, c, a, t))
                    = Cardinality(RawRows(c, a, "timestamp_key", t))
        /\ START_TIMESTAMP \notin combined_log.columns
        /\ \A k \in 1..Len(combined_log.rows) :
              START_TIMESTAMP \notin DOMAIN combined_log.rows[k]

\* C10 witness: a PRODUCTION_STYLE log with a row whose start timestamp
\* differs from its timestamp has been split
C10_Witness ==
    /\ pc = "done"
    /\ log_type = PRODUCTION_STYLE
    /\ \E k \in 1..Len(standard_named_log.rows) :
          standard_named_log.rows[k][START_TIMESTAMP]
              # standard_named_log.rows[k][TIMESTAMP]

\* the rows of the raw PRODUCTION_STYLE table with the given case, activity,
\* start timestamp and timestamp
RawIntervals(case_id, activity, s, t) ==
    {k \in 1..Len(event_log.rows) :
        /\ event_log.rows[k][mapping.case_id_key] = case_id
        /\ event_log.rows[k][mapping.activity_key] = activity
        /\ event_log.rows[k][mapping.start_timestamp_key] = s
        /\ event_log.rows[k][mapping.timestamp_key] = t}

\* the pairs of match_all whose start event is of the given case, activity
\* and time s and whose complete event is of that case, activity and time t
PairedIntervals(case_id, activity, s, t) ==
    {j \in Pairs :
        /\ combined_log.rows[StartOfPair(j)][CASE_ID] = case_id
        /\ combined_log.rows[StartOfPair(j)][ACTIVITY] = activity
        /\ combined_log.rows[StartOfPair(j)][TIMESTAMP] = s
        /\ combined_log.rows[CompleteOfPair(j)][CASE_ID] = case_id
        /\ combined_log.rows[CompleteOfPair(j)][ACTIVITY] = activity
        /\ combined_log.rows[CompleteOfPair(j)][TIMESTAMP] = t}

\* every row of the raw PRODUCTION_STYLE table starts no later than it
\* completes
RowsWellFormed ==
    \A k \in 1..Len(event_log.rows) :
        event_log.rows[k][mapping.start_timestamp_key]
            <= event_log.rows[k][mapping.timestamp_key]

SortedByCaseAndTime(log) ==
    \A k \in 1..(Len(log.rows) - 1) :
        \/ CaseRank(log.rows[k][CASE_ID]) < CaseRank(log.rows[k + 1][CASE_ID])
        \/ /\ log.rows[k][CASE_ID] = log.rows[k + 1][CASE_ID]
           /\ log.rows[k][TIMESTAMP] <= log.rows[k + 1][TIMESTAMP]

KeepsDeclared(k, j) ==
    \A f \in {f \in DOMAIN mapping : mapping[f] # None} :
        canonical.rows[j][FieldToStandard[f]]
            = IF f = "instance_key"
              THEN ToString(event_log.rows[k][mapping[f]])
              ELSE event_log.rows[k][mapping[f]]

\* C14: for an EXPLICIT_INTERVAL log the matcher makes no pair and assigns no
\* id, the table returned has as many rows as the log, and every row of the
\* log is in it as often as in the log, with its declared lifecycle
\* transition and its declared instance id as a string.
C14_ExplicitPassthrough ==
    (pc = "done" /\ log_type = EXPLICIT_INTERVAL) =>
        /\ matches = <<>>
        /\ instance_of = <<>>
        /\ Len(canonical.rows) = Len(event_log.rows)
        /\ \A k \in 1..Len(event_log.rows) :
              Cardinality({j \in 1..Len(canonical.rows) : KeepsDeclared(k, j)})
                  = Cardinality({i \in 1..Len(event_log.rows) :
                                    event_log.rows[i] = event_log.rows[k]})

\* C14 witness: an EXPLICIT_INTERVAL log that declares the same START event of
\* instance 1 twice has been formatted, and both rows are returned
C14_Witness ==
    /\ pc = "done"
    /\ log_type = EXPLICIT_INTERVAL
    /\ Len(event_log.rows) = 2
    /\ event_log.rows[1] = event_log.rows[2]
    /\ event_log.rows[1][mapping.instance_key] = 1
    /\ event_log.rows[1][mapping.lifecycle_type_key] = START
    /\ \A j \in 1..Len(canonical.rows) :
          /\ canonical.rows[j][INSTANCE_ID] = "1"
          /\ canonical.rows[j][LIFECYCLE_TRANSITION] = START
    /\ Len(canonical.rows) = 2

\* C15: the table a second call of event_log_formatter returns, given the
\* table returned for an EXPLICIT_INTERVAL log and the mapping of the standard
\* names to themselves, equals the first table, row for row.
C15_ExplicitIdempotent == pc = "again" => reformatted = canonical

\* C15 witness: the second call has been made on a table of two rows of one
\* case and timestamp, made from a log that gave them in descending order of
\* instance id
C15_Witness ==
    /\ pc = "again"
    /\ Len(event_log.rows) = 2
    /\ event_log.rows[1][mapping.instance_key] > event_log.rows[2][mapping.instance_key]
    /\ canonical.rows[1][CASE_ID] = canonical.rows[2][CASE_ID]
    /\ canonical.rows[1][TIMESTAMP] = canonical.rows[2][TIMESTAMP]
    /\ canonical.rows[1][INSTANCE_ID] = "2"
    /\ Len(reformatted.rows) = 2

\* the rows of the raw table with the given case, activity, resource, value t
\* of the column mapped to `slot` and, if the table has a lifecycle column,
\* the given transition
RawRowsWith(case_id, activity, slot, t, resource, transition) ==
    {k \in 1..Len(event_log.rows) :
        /\ event_log.rows[k][mapping.case_id_key] = case_id
        /\ event_log.rows[k][mapping.activity_key] = activity
        /\ event_log.rows[k][mapping[slot]] = t
        /\ event_log.rows[k][mapping.resource_key] = resource
        /\ mapping.lifecycle_type_key # None
              => event_log.rows[k][mapping.lifecycle_type_key] = transition}

\* the rows of the table returned with the given case, activity, timestamp,
\* resource and transition
CanonicalRowsWith(case_id, activity, t, resource, transition) ==
    {j \in RowsOf(canonical, transition) :
        /\ canonical.rows[j][CASE_ID] = case_id
        /\ canonical.rows[j][ACTIVITY] = activity
        /\ canonical.rows[j][TIMESTAMP] = t
        /\ canonical.rows[j][ORG_RESOURCE] = resource}

\* the column a START row takes its timestamp from
StartSlot ==
    IF log_type = PRODUCTION_STYLE THEN "start_timestamp_key" ELSE "timestamp_key"

\* a mapping without the resource
WithoutResource(m) == [m EXCEPT !.resource_key = None]

MappingItems == ConvertToStandardMapping(mapping_type, dict_items, mapping)

\* position k holds the first key of the mapping that is no standard name
FirstUnknownKey(k) ==
    /\ MappingItems[k][1] \notin STANDARD_COLUMN_NAMES
    /\ \A j \in 1..(k - 1) : MappingItems[j][1] \in STANDARD_COLUMN_NAMES

AllKeysKnown ==
    \A k \in 1..Len(MappingItems) : MappingItems[k][1] \in STANDARD_COLUMN_NAMES

\* C16: a mapping with a key that is no standard column name makes the
\* formatter fail with the validation's ValueError, which names the first
\* such key; a mapping whose keys are all standard names passes the
\* validation of the keys.
C16_UnknownKeysRejected ==
    pc # "raw" =>
        /\ \A k \in 1..Len(MappingItems) :
              FirstUnknownKey(k) =>
                  /\ pc = "failed"
                  /\ raised = Error("ValueError", MappingItems[k][1])
        /\ AllKeysKnown => raised.raised # "ValueError"

\* C16 witness: a dict whose items end with the unknown keys "resource" and
\* "not_a_real_field" has been rejected with the first of them named
C16_Witness ==
    /\ pc = "failed"
    /\ mapping_type = DICT
    /\ Len(dict_items) >= 5
    /\ dict_items[Len(dict_items) - 1][1] = "resource"
    /\ dict_items[Len(dict_items)][1] = "not_a_real_field"
    /\ raised.names = "resource"

\* the mandatory slots whose log column is not in the table
MissingMandatory == {f \in MandatorySlots : mapping[f] \notin event_log.columns}

C18_DictMappingAccepted ==
    (/\ pc # "raw"
     /\ mapping_type = DICT
     /\ dict_items = StandardItems(mapping)
     /\ \A k \in 1..Len(dict_items) : dict_items[k][2] \in event_log.columns) =>
        /\ raised = NoError
        /\ log_type = DetectLogType(mapping)
        /\ canonical = EventLogFormatter(event_log, mapping, INT64)

HUMAN_RESOURCE == "human_resource"
ROLE == "org:role"

\* the columns of the two tables of tests/general/conftest.py
CoreColumns == {CASE_ID, ACTIVITY, TIMESTAMP}
OptionalColumns == {INSTANCE_ID, HUMAN_RESOURCE, ROLE, ORG_RESOURCE}
IndicatorColumnSets == {CoreColumns, CoreColumns \cup OptionalColumns}

\* the j-th value of an optional column
AttributeValue(column, j) ==
    CASE column = INSTANCE_ID -> "inst" \o ToString(j)
      [] column = HUMAN_RESOURCE -> "hr" \o ToString(j)
      [] column = ROLE -> "role" \o ToString(j)
      [] column = ORG_RESOURCE -> "res" \o ToString(j)

\* a row of a formatted table: its case, its activity, its position as the
\* time, and the j-th value in every optional column the table has
IndicatorRow(columns, k, c, a, j) ==
    [column \in columns |->
        CASE column = CASE_ID -> c
          [] column = ACTIVITY -> a
          [] column = TIMESTAMP -> k
          [] OTHER -> AttributeValue(column, j)]

RowKinds == CaseIds \X Activities \X (1..2)

\* the formatted tables of at most n rows
IndicatorTables(n) ==
    UNION {
        {[columns |-> columns,
          rows |-> [k \in 1..len |-> IndicatorRow(columns, k, kinds[k][1], kinds[k][2], kinds[k][3])]] :
            kinds \in [1..len -> RowKinds]} :
        <<columns, len>> \in IndicatorColumnSets \X (0..n)}

Raised(exception, name) == [raised |-> exception, names |-> name, value |-> None]
Returned(value) == [raised |-> None, names |-> None, value |-> value]

\* event_log[event_log[key] == value][column].unique(), as a set
Unique(log, key, value, column) ==
    {log.rows[k][column] : k \in {k \in 1..Len(log.rows) : log.rows[k][key] = value}}

\* a variant of helpers.cases._is_case_id_valid that accepts every case id
IsCaseIdValidAlways(log, case_id) == NoError

\* helpers.cases._is_case_id_valid: the error it raises, if any
IsCaseIdValid(log, case_id) ==
    IF \A k \in 1..Len(log.rows) : log.rows[k][CASE_ID] # case_id
    THEN Error("ValueError", case_id)
    ELSE NoError

\* utils.cases._is_case_id_valid: the error it raises, if any; the message
\* for an empty case id says that it is empty
UtilsIsCaseIdValid(log, case_id) ==
    IF case_id = ""
    THEN Error("ValueError", "")
    ELSE IF \A k \in 1..Len(log.rows) : log.rows[k][CASE_ID] # case_id
    THEN Error("ValueError", case_id)
    ELSE NoError

\* a variant of the case accessors that does not look for the column
CaseAccessorAnyColumn(valid, log, case_id, column) ==
    IF valid.raised # None
    THEN Raised(valid.raised, valid.names)
    ELSE IF column \notin log.columns
    THEN Returned({})
    ELSE Returned(Unique(log, CASE_ID, case_id, column))

\* act, res, hres, role and inst of helpers/cases.py and of utils/cases.py,
\* given what _is_case_id_valid raised: the values of `column` on the rows
\* of the case; res, hres, role and inst want their column in the table
CaseAccessor(valid, log, case_id, column) ==
    IF valid.raised # None
    THEN Raised(valid.raised, valid.names)
    ELSE IF column \in OptionalColumns /\ column \notin log.columns
    THEN Raised("ColumnNotFoundError", column)
    ELSE Returned(Unique(log, CASE_ID, case_id, column))

\* helpers.cases.act, res, hres, role, inst
HelpersCases(log, case_id, column) ==
    CaseAccessor(IsCaseIdValid(log, case_id), log, case_id, column)

\* utils.cases.act, res, hres, role, inst
UtilsCases(log, case_id, column) ==
    CaseAccessor(UtilsIsCaseIdValid(log, case_id), log, case_id, column)

\* len(...) of what an accessor returned
Count(result) ==
    IF result.raised # None THEN result ELSE Returned(Cardinality(result.value))

\* the count indicators and the column whose values each counts
CountIndicators ==
    {"activity_count", "activity_instance_count", "human_resource_count",
     "resource_count", "role_count"}

CountedColumn(indicator) ==
    CASE indicator = "activity_count" -> ACTIVITY
      [] indicator = "activity_instance_count" -> INSTANCE_ID
      [] indicator = "human_resource_count" -> HUMAN_RESOURCE
      [] indicator = "resource_count" -> ORG_RESOURCE
      [] indicator = "role_count" -> ROLE

\* general.cases.activity_count, activity_instance_count,
\* human_resource_count, resource_count, role_count
GeneralCases(log, indicator, case_id) ==
    Count(HelpersCases(log, case_id, CountedColumn(indicator)))

\* helpers.activities.res, hres, role, inst: the values of `column` on the
\* rows of the activity
HelpersActivities(log, activity_name, column) ==
    IF ~IsActivityNameValid(log, activity_name)
    THEN Raised("ActivityNameNotFoundError", activity_name)
    ELSE IF column \notin log.columns
    THEN Raised("ColumnNotFoundError", column)
    ELSE Returned(Unique(log, ACTIVITY, activity_name, column))

\* general.activities.activity_instance_count, human_resource_count,
\* resource_count
ActivityCountIndicators ==
    {"activity_instance_count", "human_resource_count", "resource_count"}

GeneralActivities(log, indicator, activity_name) ==
    Count(HelpersActivities(log, activity_name, CountedColumn(indicator)))


\* a variant of _is_case_ids_empty that accepts the empty collection
IsCaseIdsEmptyNever(case_ids) == NoError

\* indicators.general.groups._is_case_ids_empty: the error it raises, if any
IsCaseIdsEmpty(case_ids) ==
    IF Len(case_ids) = 0 THEN Error("ValueError", "case_ids") ELSE NoError

\* where a group indicator takes the count of one case from: utils.cases or
\* general.cases
GroupSource(indicator) ==
    IF indicator = "activity_instance_count" THEN "general" ELSE "utils"

ExpectedSource(indicator) ==
    IF indicator = "activity_count" THEN "utils" ELSE "general"

PerCase(source, log, indicator, case_id) ==
    IF source = "utils"
    THEN Count(UtilsCases(log, case_id, CountedColumn(indicator)))
    ELSE GeneralCases(log, indicator, case_id)

\* the loop `for case_id in case_ids: count += ...` after k case ids
RECURSIVE GroupLoop(_, _, _, _, _)
GroupLoop(source, log, indicator, case_ids, k) ==
    IF k = 0 THEN Returned(0)
    ELSE LET before == GroupLoop(source, log, indicator, case_ids, k - 1)
             this == PerCase(source, log, indicator, case_ids[k])
         IN  IF before.raised # None THEN before
             ELSE IF this.raised # None THEN this
             ELSE Returned(before.value + this.value)

\* a variant of the group counts that counts the distinct values of the cases
GroupCountDistinct(log, indicator, case_ids) ==
    IF IsCaseIdsEmpty(case_ids).raised # None
    THEN Raised(IsCaseIdsEmpty(case_ids).raised, IsCaseIdsEmpty(case_ids).names)
    ELSE IF GroupLoop(GroupSource(indicator), log, indicator, case_ids, Len(case_ids)).raised # None
    THEN GroupLoop(GroupSource(indicator), log, indicator, case_ids, Len(case_ids))
    ELSE Returned(Cardinality(UNION {
            Unique(log, CASE_ID, case_ids[k], CountedColumn(indicator)) :
                k \in 1..Len(case_ids)}))

\* indicators.general.groups.activity_count, activity_instance_count,
\* human_resource_count, resource_count, role_count
GroupCount(log, indicator, case_ids) ==
    IF IsCaseIdsEmpty(case_ids).raised # None
    THEN Raised(IsCaseIdsEmpty(case_ids).raised, IsCaseIdsEmpty(case_ids).names)
    ELSE GroupLoop(GroupSource(indicator), log, indicator, case_ids, Len(case_ids))

\* indicators.general.groups.case_count
CaseCount(log, case_ids) ==
    IF IsCaseIdsEmpty(case_ids).raised # None
    THEN Raised(IsCaseIdsEmpty(case_ids).raised, IsCaseIdsEmpty(case_ids).names)
    ELSE Returned(Cardinality(
            {case_ids[k] : k \in 1..Len(case_ids)}
                \cap {log.rows[k][CASE_ID] : k \in 1..Len(log.rows)}))

\* numerator / denominator of two integers: the quotient as the pair, or
\* ZeroDivisionError
Divide(numerator, denominator) ==
    IF denominator = 0
    THEN Raised("ZeroDivisionError", None)
    ELSE Returned(<<numerator, denominator>>)

\* indicators.general.groups.expected_activity_count and the four others:
\* the loop, then count / case_count(event_log, case_ids)
ExpectedGroupCount(log, indicator, case_ids) ==
    LET count == GroupLoop(ExpectedSource(indicator), log, indicator, case_ids, Len(case_ids))
    IN  IF IsCaseIdsEmpty(case_ids).raised # None
        THEN Raised(IsCaseIdsEmpty(case_ids).raised, IsCaseIdsEmpty(case_ids).names)
        ELSE IF count.raised # None THEN count
        ELSE IF CaseCount(log, case_ids).raised # None THEN CaseCount(log, case_ids)
        ELSE Divide(count.value, CaseCount(log, case_ids).value)

(***************************************************************************)
(* The state machine of the lookups: one call of an accessor or of a count *)
(* indicator on a formatted table.                                         *)
(***************************************************************************)
MaxCaseIds == 2

\* the case ids a caller may ask for: those of the tables, one that is in
\* no table, and the empty one
LookupCaseIds == CaseIds \cup {"absent", ""}

\* the lists of case ids a caller may hand to a group indicator (a set is a
\* list without repetition, in the order it iterates)
CaseIdLists ==
    UNION {[1..len -> CaseIds \cup {"absent"}] : len \in 0..MaxCaseIds}

\* event_log_formatter has not been called
FormatterIdle ==
    /\ mapping = MappingOf({})
    /\ mapping_type = STRUCTURED
    /\ dict_items = <<>>
    /\ event_log = EmptyTable
    /\ raised = NoError
    /\ pc = "raw"
    /\ standard_named_log = EmptyTable
    /\ log_type = None
    /\ combined_log = EmptyTable
    /\ matches = <<>>
    /\ instance_of = <<>>
    /\ canonical = EmptyTable
    /\ reformatted = EmptyTable
    /\ lookup = NoLookup
    /\ activity_lookup = NoActivityLookup

LookupInit ==
    /\ FormatterIdle
    /\ indicator_log \in IndicatorTables(MaxRows)
    /\ indicator_call = NoCall
    /\ indicator_result = NoResult
    /\ RunnerIdle

\* a call of `function` with `argument` that gave `result`
Called(function, indicator, argument, result) ==
    /\ indicator_call = NoCall
    /\ indicator_call' = [function |-> function, indicator |-> indicator,
                          argument |-> argument]
    /\ indicator_result' = result
    /\ UNCHANGED <<formatter_vars, indicator_log, runner_vars>>

\* general.cases.<indicator>(indicator_log, case_id)
CaseIndicator(indicator, case_id) ==
    Called("general.cases", indicator, case_id,
           GeneralCases(indicator_log, indicator, case_id))

\* utils.cases.act, res, hres, role or inst (indicator_log, case_id)
UtilsAccessor(indicator, case_id) ==
    Called("utils.cases", indicator, case_id,
           UtilsCases(indicator_log, case_id, CountedColumn(indicator)))

\* general.activities.<indicator>(indicator_log, activity_name)
ActivityIndicator(indicator, activity_name) ==
    Called("general.activities", indicator, activity_name,
           GeneralActivities(indicator_log, indicator, activity_name))

\* indicators.general.groups.<indicator>(indicator_log, case_ids)
GroupIndicator(indicator, case_ids) ==
    Called("groups", indicator, case_ids,
           GroupCount(indicator_log, indicator, case_ids))

\* indicators.general.groups.expected_<indicator>(indicator_log, case_ids)
ExpectedGroupIndicator(indicator, case_ids) ==
    Called("groups.expected", indicator, case_ids,
           ExpectedGroupCount(indicator_log, indicator, case_ids))

LookupNext ==
    \/ \E indicator \in CountIndicators, case_id \in LookupCaseIds :
          CaseIndicator(indicator, case_id)
    \/ \E indicator \in CountIndicators, case_id \in LookupCaseIds :
          UtilsAccessor(indicator, case_id)
    \/ \E indicator \in ActivityCountIndicators, activity_name \in Activities :
          ActivityIndicator(indicator, activity_name)
    \/ \E indicator \in CountIndicators, case_ids \in CaseIdLists :
          GroupIndicator(indicator, case_ids)
    \/ \E indicator \in CountIndicators, case_ids \in CaseIdLists :
          ExpectedGroupIndicator(indicator, case_ids)

LookupSpec == LookupInit /\ [][LookupNext]_vars


(***************************************************************************)
(* Properties of the lookups on a formatted table.                         *)
(***************************************************************************)
\* the argument of the last call is on a row of the table, in column `key`
ArgumentOccurs(key) ==
    \E k \in 1..Len(indicator_log.rows) :
        indicator_log.rows[k][key] = indicator_call.argument

CaseLevelCall == indicator_call.function \in {"general.cases", "utils.cases"}

ColumnAbsent ==
    /\ CountedColumn(indicator_call.indicator) \in OptionalColumns
    /\ CountedColumn(indicator_call.indicator) \notin indicator_log.columns

\* C22: an accessor or count of an optional attribute, called with a case id
\* or an activity name of the table on a table without that column, raises
\* ColumnNotFoundError; called with an unknown case id or activity name it
\* raises the lookup error, which is another kind, whether or not the column
\* is there.
C22_ColumnAbsence ==
    /\ (CaseLevelCall /\ ColumnAbsent) =>
          IF ArgumentOccurs(CASE_ID)
          THEN indicator_result.raised = "ColumnNotFoundError"
          ELSE indicator_result.raised = "ValueError"
    /\ (indicator_call.function = "general.activities" /\ ColumnAbsent) =>
          IF ArgumentOccurs(ACTIVITY)
          THEN indicator_result.raised = "ColumnNotFoundError"
          ELSE indicator_result.raised = "ActivityNameNotFoundError"
    /\ (indicator_call.function \in {"general.cases", "utils.cases", "general.activities"}
            /\ ~ColumnAbsent)
          => indicator_result.raised # "ColumnNotFoundError"

\* C22 witness: human_resource_count of general.cases was asked for a case of
\* a table without the human resource column, and raised ColumnNotFoundError
C22_Witness ==
    /\ indicator_call.function = "general.cases"
    /\ indicator_call.indicator = "human_resource_count"
    /\ ArgumentOccurs(CASE_ID)
    /\ HUMAN_RESOURCE \notin indicator_log.columns
    /\ indicator_result.raised = "ColumnNotFoundError"

\* the sum of the per-case counts of general.cases over the first k case ids
RECURSIVE SumOfCaseCounts(_, _, _, _)
SumOfCaseCounts(log, indicator, case_ids, k) ==
    IF k = 0 THEN 0
    ELSE SumOfCaseCounts(log, indicator, case_ids, k - 1)
            + GeneralCases(log, indicator, case_ids[k]).value

\* every case id of the list is in the table, and the per-case count of each
\* returns
PerCaseCountsReturn ==
    \A k \in 1..Len(indicator_call.argument) :
        GeneralCases(indicator_log, indicator_call.indicator,
                     indicator_call.argument[k]).raised = None

\* C26: a group count over a non-empty list of case ids that are all in the
\* table, where every per-case count returns, is the sum of the per-case
\* counts over the list.
C26_GroupCountIsSum ==
    (/\ indicator_call.function = "groups"
     /\ Len(indicator_call.argument) > 0
     /\ PerCaseCountsReturn)
        => /\ indicator_result.raised = None
           /\ indicator_result.value =
                 SumOfCaseCounts(indicator_log, indicator_call.indicator,
                                 indicator_call.argument, Len(indicator_call.argument))

\* C26 witness: the group activity_count of two cases that have the same one
\* activity is 2
C26_Witness ==
    /\ indicator_call.function = "groups"
    /\ indicator_call.indicator = "activity_count"
    /\ indicator_call.argument = <<"c1", "c2">>
    /\ Unique(indicator_log, CASE_ID, "c1", ACTIVITY) = {"A"}
    /\ Unique(indicator_log, CASE_ID, "c2", ACTIVITY) = {"A"}
    /\ indicator_result.value = 2

\* C30: an expected_* group indicator never raises ZeroDivisionError: with no
\* case ids it raises the ValueError of the empty collection, with a case id
\* that is not in the table it raises before it divides, and what it divides
\* by is at least 1.
C30_ExpectedNeverDividesByZero ==
    indicator_call.function = "groups.expected" =>
        /\ indicator_result.raised # "ZeroDivisionError"
        /\ Len(indicator_call.argument) = 0 =>
              /\ indicator_result.raised = "ValueError"
              /\ indicator_result.names = "case_ids"
        /\ (\E k \in 1..Len(indicator_call.argument) :
                \A r \in 1..Len(indicator_log.rows) :
                    indicator_log.rows[r][CASE_ID] # indicator_call.argument[k])
              => indicator_result.raised \in {"ValueError", "ColumnNotFoundError"}
        /\ indicator_result.raised = None => indicator_result.value[2] >= 1

\* C30 witness: expected_activity_count was asked for a list that names one
\* case twice, and divided by a case count of 1
C30_Witness ==
    /\ indicator_call.function = "groups.expected"
    /\ indicator_call.indicator = "activity_count"
    /\ indicator_call.argument = <<"c1", "c1">>
    /\ indicator_result.raised = None
    /\ indicator_result.value[2] = 1


(***************************************************************************)
(* utils/safe_division.py, and the state machine of one call of it.        *)
(***************************************************************************)
MaxValue == 5

Values == (0 - MaxValue)..MaxValue

\* a variant of safe_division that divides without looking at the denominator
SafeDivisionUnguarded(numerator, denominator) == Divide(numerator, denominator)

\* safe_division(numerator, denominator), with the default exception_class;
\* the message of the error has both values
SafeDivision(numerator, denominator) ==
    IF denominator = 0
    THEN Raised("ProcessPerformanceIndicatorDivisionError", <<numerator, denominator>>)
    ELSE Divide(numerator, denominator)

DivisionInit ==
    /\ FormatterIdle
    /\ IndicatorIdle
    /\ RunnerIdle

\* safe_division(numerator, denominator)
SafeDivisionCall(numerator, denominator) ==
    Called("safe_division", None, <<numerator, denominator>>,
           SafeDivision(numerator, denominator))

DivisionNext ==
    \E numerator \in Values, denominator \in Values :
        SafeDivisionCall(numerator, denominator)

DivisionSpec == DivisionInit /\ [][DivisionNext]_vars

\* C23: safe_division raises the division error, with both values in its
\* message, whenever the denominator is zero, whatever the numerator, and
\* returns nothing then; otherwise it returns the quotient.
C23_SafeDivision ==
    indicator_call.function = "safe_division" =>
        LET numerator == indicator_call.argument[1]
            denominator == indicator_call.argument[2]
        IN  IF denominator = 0
            THEN /\ indicator_result.raised = "ProcessPerformanceIndicatorDivisionError"
                 /\ indicator_result.names = <<numerator, denominator>>
                 /\ indicator_result.value = None
            ELSE /\ indicator_result.raised = None
                 /\ indicator_result.value[2] # 0
                 /\ indicator_result.value[1] * denominator
                        = numerator * indicator_result.value[2]

\* C23 witness: safe_division(0, 0) was called and raised the division error
C23_Witness ==
    /\ indicator_call.function = "safe_division"
    /\ indicator_call.argument = <<0, 0>>
    /\ indicator_result.raised = "ProcessPerformanceIndicatorDivisionError"


(***************************************************************************)
(* The order of the complete events in match_all.                          *)
(***************************************************************************)
\* the complete events of a case of the table handed to the matcher
CompleteEvents(case_id) ==
    SelectSeq(CaseLog(combined_log.rows, case_id),
              LAMBDA k : combined_log.rows[k][LIFECYCLE_TRANSITION] = COMPLETE)

\* every order of the elements of a sequence
Orders(seq) ==
    {[j \in 1..Len(seq) |-> seq[f[j]]] :
        f \in {g \in [1..Len(seq) -> 1..Len(seq)] :
                  \A i, j \in 1..Len(seq) : g[i] = g[j] => i = j}}

\* the start event a list of pairs gives to a complete event
StartGiven(pairs, complete_event) ==
    pairs[CHOOSE j \in 1..Len(pairs) : pairs[j][2] = complete_event][1]

MaxLogRows == 1

IndicatorSpec(dimension, granularity, name, module, parameters) ==
    [dimension |-> dimension, granularity |-> granularity, name |-> name,
     module |-> module, parameters |-> parameters]

\* the indicators of INDICATOR_REGISTRY that the model runs, each with the
\* parameters of its signature after event_log (none has a default), in the
\* order build_indicator_registry sorts them: dimension, granularity, name
INDICATOR_REGISTRY ==
    <<IndicatorSpec("flexibility", "cases", "activity_and_role_count_ratio",
                    "flexibility.cases", <<"case_id">>),
      IndicatorSpec("flexibility", "cases", "directly_follows_relations_count",
                    "flexibility.cases", <<"case_id">>),
      IndicatorSpec("flexibility", "cases", "optionality",
                    "flexibility.cases", <<"case_id">>),
      IndicatorSpec("general", "groups", "case_count",
                    "general.groups", <<"case_ids">>),
      IndicatorSpec("general", "groups", "expected_activity_count",
                    "general.groups", <<"case_ids">>),
      IndicatorSpec("quality", "cases", "automated_activity_count",
                    "quality.cases", <<"case_id", "automated_activities">>)>>

DIMENSIONS == {"cost", "time", "quality", "flexibility", "general"}
GRANULARITIES == {"activities", "cases", "groups", "instances"}

\* a filter argument of the runners: None, or a list of names
NoFilter == [none |-> TRUE, names |-> {}]
Filter(names) == [none |-> FALSE, names |-> names]

\* select_indicators(dimension=..., granularity=...): the specs of the
\* registry that pass both filters, in registry order, or ValueError for a
\* name that is no dimension or no granularity
SelectIndicators(dimension, granularity) ==
    IF ~dimension.none /\ dimension.names \ DIMENSIONS # {}
    THEN Raised("ValueError", dimension.names \ DIMENSIONS)
    ELSE IF ~granularity.none /\ granularity.names \ GRANULARITIES # {}
    THEN Raised("ValueError", granularity.names \ GRANULARITIES)
    ELSE Returned(SelectSeq(INDICATOR_REGISTRY,
            LAMBDA spec :
                /\ dimension.none \/ spec.dimension \in dimension.names
                /\ granularity.none \/ spec.granularity \in granularity.names))

\* the fields of IndicatorArguments that the indicators of the model take
ArgumentFields == {"case_id", "case_ids", "automated_activities"}

\* a field of the bundle: None, the empty sequence, or a value, the
\* sequence of the value
Absent == <<>>
Given(value) == <<value>>

\* the case ids a caller puts in a bundle: one that the tables may hold
\* and one that is in no table
BundleCaseIds == {SortedCaseIds[1], "absent"}

\* the bundles a caller may hand to a runner
ArgumentBundles ==
    [case_id : {Absent} \cup {Given(case_id) : case_id \in BundleCaseIds},
     case_ids : {Absent} \cup {Given(case_ids) :
                    case_ids \in UNION {[1..len -> BundleCaseIds] :
                                            len \in 0..(MaxCaseIds - 1)}},
     automated_activities : {Absent, Given({"A"})}]

\* args_dict = {k: v for k, v in asdict(args).items() if v is not None}
ArgsDict(args) ==
    [k \in {k \in ArgumentFields : args[k] # Absent} |-> args[k][1]]

\* _ARG_ALIASES.get(param_name): the fields of the bundle that may supply a
\* parameter under another name
ARG_ALIASES(param_name) ==
    CASE param_name = "direct_costs_activities" ->
            <<"direct_costs_activities", "direct_cost_activities">>
      [] param_name = "direct_cost_activities" ->
            <<"direct_cost_activities", "direct_costs_activities">>
      [] OTHER -> <<>>

\* the field of args_dict that supplies a parameter to run_indicators: the
\* parameter's own name, else its first alias that args_dict has, else None
SuppliedBy(args_dict, param_name, aliases) ==
    IF param_name \in DOMAIN args_dict THEN param_name
    ELSE IF aliases /\ \E j \in 1..Len(ARG_ALIASES(param_name)) :
                            ARG_ALIASES(param_name)[j] \in DOMAIN args_dict
    THEN ARG_ALIASES(param_name)[
            CHOOSE j \in 1..Len(ARG_ALIASES(param_name)) :
                /\ ARG_ALIASES(param_name)[j] \in DOMAIN args_dict
                /\ \A i \in 1..(j - 1) : ARG_ALIASES(param_name)[i] \notin DOMAIN args_dict]
    ELSE None

\* kwargs without event_log: the parameters of the signature that args_dict
\* supplies, each with its value; run_indicators looks at the aliases,
\* run_indicators_cached does not
Kwargs(spec, args_dict, aliases) ==
    LET names == {spec.parameters[j] : j \in 1..Len(spec.parameters)}
    IN  [param_name \in {n \in names : SuppliedBy(args_dict, n, aliases) # None} |->
            args_dict[SuppliedBy(args_dict, param_name, aliases)]]

\* a variant of _missing_required_args that reports the first missing name only
MissingRequiredArgsFirst(spec, kwargs) ==
    LET missing == SelectSeq(spec.parameters, LAMBDA name : name \notin DOMAIN kwargs)
    IN  IF missing = <<>> THEN <<>> ELSE <<missing[1]>>

\* _missing_required_args(sig, kwargs): the parameters of the signature, in
\* its order, that kwargs does not have (no parameter of the model's
\* indicators has a default or is variadic)
MissingRequiredArgs(spec, kwargs) ==
    SelectSeq(spec.parameters, LAMBDA name : name \notin DOMAIN kwargs)


(***************************************************************************)
(* execution/_cache.py: the cached wrapper and the wrapping of a module.   *)
(* A memo is what a call through a wrapper may change: the shared cache, a *)
(* sequence of entries in insertion order, and the record of the calls.    *)
(***************************************************************************)
\* the type of the value a parameter takes
ArgumentType(parameter) ==
    CASE parameter = "case_id" -> "str"
      [] parameter = "case_ids" -> "list"
      [] parameter = "automated_activities" -> "set"

\* whether hash() takes a value of the type: a list and a set are unhashable
Hashable(type) == type = "str"

\* _make_cache_key(event_log, args, kwargs): every call of a run has the
\* same event log, and the indicators call each other positionally
MakeCacheKey(args) == <<"id(event_log)", args, <<>>>>

CacheHas(entries, cache_key) ==
    \E j \in 1..Len(entries) : entries[j].key = cache_key

CacheGet(entries, cache_key) ==
    entries[CHOOSE j \in 1..Len(entries) : entries[j].key = cache_key].result

\* the wrapper create_cached_wrapper makes for module.name, called as
\* wrapper(event_log, argument) where the original would give `direct`:
\* building the key never fails, `cache_key in cache` hashes it
Wrapper(memo, module, name, type, argument, direct) ==
    LET cache_key == [module |-> module, name |-> name,
                      key |-> MakeCacheKey(<<argument>>)]
        through ==
            IF ~Hashable(type) THEN Raised("TypeError", type)
            ELSE IF CacheHas(memo.cache, cache_key) THEN CacheGet(memo.cache, cache_key)
            ELSE direct
        call == [module |-> module, name |-> name, type |-> type,
                 hit |-> Hashable(type) /\ CacheHas(memo.cache, cache_key),
                 through |-> through, direct |-> direct]
    IN  [outcome |-> through,
         memo |-> [cache |-> IF /\ Hashable(type)
                                /\ ~CacheHas(memo.cache, cache_key)
                                /\ direct.raised = None
                             THEN Append(memo.cache, [key |-> cache_key, result |-> direct])
                             ELSE memo.cache,
                   calls |-> Append(memo.calls, call)]]

\* module.name(event_log, argument), through what the module binds the
\* name to
ModuleCall(memo, binding, module, name, type, argument, direct) ==
    IF binding[module][name] = "wrapper"
    THEN Wrapper(memo, module, name, type, argument, direct)
    ELSE [outcome |-> direct, memo |-> memo]

\* wrap_module_functions(module, cache): the module after it, and the
\* originals it returns
WrapModuleFunctions(binding, module) ==
    [binding |-> [binding EXCEPT ![module] =
                    [name \in PublicFunctions(module) |-> "wrapper"]],
     originals |-> binding[module]]

\* unwrap_module_functions(module, originals)
UnwrapModuleFunctions(binding, module, originals) ==
    [binding EXCEPT ![module] =
        [name \in DOMAIN binding[module] |->
            IF name \in DOMAIN originals THEN originals[name] ELSE binding[module][name]]]

\* `for module in modules_to_wrap: wrapped_modules[module] = wrap_module_functions(module, cache)`
\* after the first k modules
RECURSIVE WrapAll(_, _)
WrapAll(binding, k) ==
    IF k = 0 THEN [binding |-> binding, wrapped_modules |-> <<>>]
    ELSE LET before == WrapAll(binding, k - 1)
             this == WrapModuleFunctions(before.binding, ModulesToWrap[k])
         IN  [binding |-> this.binding,
              wrapped_modules |-> Append(before.wrapped_modules,
                    [module |-> ModulesToWrap[k], originals |-> this.originals])]

\* `for module, originals in wrapped_modules.items(): unwrap_module_functions(module, originals)`
\* after the first k items
RECURSIVE UnwrapAll(_, _, _)
UnwrapAll(binding, items, k) ==
    IF k = 0 THEN binding
    ELSE UnwrapModuleFunctions(UnwrapAll(binding, items, k - 1),
                               items[k].module, items[k].originals)

(***************************************************************************)
(* The indicators of the registry.  Each gives its outcome and the memo    *)
(* after it; the calls it makes to public functions of indicator modules   *)
(* go through what the modules bind them to.                               *)
(***************************************************************************)
\* the step `x = f(...)` of an indicator: its continuation if f returned,
\* the exception if f raised
Done(outcome, memo) == [outcome |-> outcome, memo |-> memo]

\* indicators.flexibility.cases.activity_and_role_count_ratio
ActivityAndRoleCountRatio(memo, binding, log, case_id) ==
    LET numerator == ModuleCall(memo, binding, "general.cases", "activity_count",
                                "str", case_id, GeneralCases(log, "activity_count", case_id))
        denominator == ModuleCall(numerator.memo, binding, "general.cases", "role_count",
                                  "str", case_id, GeneralCases(log, "role_count", case_id))
    IN  IF numerator.outcome.raised # None THEN numerator
        ELSE IF denominator.outcome.raised # None THEN denominator
        ELSE Done(SafeDivision(numerator.outcome.value, denominator.outcome.value),
                  denominator.memo)

\* indicators.flexibility.cases.directly_follows_relations_count
DirectlyFollowsRelationsCount(memo, binding, log, case_id) ==
    Done(Raised("NotImplementedError", None), memo)

\* indicators.flexibility.cases.optional_activity_count: the activities of
\* the case that some other case of the table does not have
OptionalActivityCount(log, case_id) ==
    LET target_activities == Unique(log, CASE_ID, case_id, ACTIVITY)
        other_cases == {log.rows[k][CASE_ID] : k \in 1..Len(log.rows)} \ {case_id}
    IN  Returned(Cardinality(
            {activity \in target_activities :
                \E other \in other_cases :
                    activity \notin Unique(log, CASE_ID, other, ACTIVITY)}))

\* indicators.flexibility.cases.optionality
Optionality(memo, binding, log, case_id) ==
    LET numerator == ModuleCall(memo, binding, "flexibility.cases", "optional_activity_count",
                                "str", case_id, OptionalActivityCount(log, case_id))
        denominator == ModuleCall(numerator.memo, binding, "general.cases", "activity_count",
                                  "str", case_id, GeneralCases(log, "activity_count", case_id))
    IN  IF numerator.outcome.raised # None THEN numerator
        ELSE IF denominator.outcome.raised # None THEN denominator
        ELSE Done(SafeDivision(numerator.outcome.value, denominator.outcome.value),
                  denominator.memo)

\* indicators.general.groups.case_count, called by the runner
RunCaseCount(memo, binding, log, case_ids) ==
    Done(CaseCount(log, case_ids), memo)

\* indicators.general.groups.expected_activity_count: the check, the loop,
\* then count / case_count(event_log, case_ids), a call of the module's own
\* public function
ExpectedActivityCount(memo, binding, log, case_ids) ==
    LET count == GroupLoop(ExpectedSource("activity_count"), log, "activity_count",
                           case_ids, Len(case_ids))
        denominator == ModuleCall(memo, binding, "general.groups", "case_count",
                                  "list", case_ids, CaseCount(log, case_ids))
    IN  IF IsCaseIdsEmpty(case_ids).raised # None
        THEN Done(Raised(IsCaseIdsEmpty(case_ids).raised, IsCaseIdsEmpty(case_ids).names), memo)
        ELSE IF count.raised # None THEN Done(count, memo)
        ELSE IF denominator.outcome.raised # None THEN denominator
        ELSE Done(Divide(count.value, denominator.outcome.value), denominator.memo)

\* indicators.quality.cases.automated_activity_count
AutomatedActivityCount(memo, binding, log, case_id, automated_activities) ==
    LET case_activities == UtilsCases(log, case_id, ACTIVITY)
    IN  IF case_activities.raised # None THEN Done(case_activities, memo)
        ELSE Done(Returned(Cardinality(automated_activities \cap case_activities.value)), memo)

\* indicator(**kwargs) for spec.callable, the function the registry took
\* from the module when it was built
Invoke(memo, binding, log, spec, kwargs) ==
    CASE spec.name = "activity_and_role_count_ratio" ->
            ActivityAndRoleCountRatio(memo, binding, log, kwargs["case_id"])
      [] spec.name = "directly_follows_relations_count" ->
            DirectlyFollowsRelationsCount(memo, binding, log, kwargs["case_id"])
      [] spec.name = "optionality" ->
            Optionality(memo, binding, log, kwargs["case_id"])
      [] spec.name = "case_count" ->
            RunCaseCount(memo, binding, log, kwargs["case_ids"])
      [] spec.name = "expected_activity_count" ->
            ExpectedActivityCount(memo, binding, log, kwargs["case_ids"])
      [] spec.name = "automated_activity_count" ->
            AutomatedActivityCount(memo, binding, log, kwargs["case_id"],
                                   kwargs["automated_activities"])


(***************************************************************************)
(* The state machine of the runners: one call of run_indicators or of      *)
(* run_indicators_cached on a formatted table, an indicator at a step.     *)
(***************************************************************************)
Filters(names) == {NoFilter} \cup {Filter(chosen) : chosen \in names}

DimensionFilters == Filters({{"general", "quality"}, {"unknown"}})
GranularityFilters == Filters({{"cases"}})

RunnerInit ==
    /\ FormatterIdle
    /\ indicator_log \in IndicatorTables(MaxLogRows)
    /\ indicator_call = NoCall
    /\ indicator_result = NoResult
    /\ RunnerIdle

\* the runner was called and select_indicators raised: the error escapes
SelectionEscapes(function, args, verbose, selection) ==
    /\ runner_call' = [function |-> function, args |-> args, verbose |-> verbose]
    /\ runner_pc' = "escaped"
    /\ runner_raised' = Error(selection.raised, selection.names)
    /\ UNCHANGED <<selected, position, result_rows, invoked, bound,
                   wrapped_modules, cache, wrapper_calls>>

\* run_indicators(event_log, args, dimension=..., granularity=...) up to
\* its loop
RunIndicators(args, dimension, granularity) ==
    /\ runner_pc = "idle"
    /\ LET selection == SelectIndicators(dimension, granularity)
       IN  IF selection.raised # None
           THEN SelectionEscapes("run_indicators", args, FALSE, selection)
           ELSE /\ runner_call' = [function |-> "run_indicators", args |-> args,
                                   verbose |-> FALSE]
                /\ selected' = selection.value
                /\ runner_pc' = "running"
                /\ UNCHANGED <<position, result_rows, invoked, bound, wrapped_modules,
                               cache, wrapper_calls, runner_raised>>
    /\ UNCHANGED <<formatter_vars, indicator_vars>>

\* run_indicators_cached(event_log, args, dimension=..., granularity=...,
\* verbose=...) up to the wrapping of the modules
RunIndicatorsCached(args, dimension, granularity, verbose) ==
    /\ runner_pc = "idle"
    /\ LET selection == SelectIndicators(dimension, granularity)
           wrapping == WrapAll(bound, Len(ModulesToWrap))
       IN  IF selection.raised # None
           THEN SelectionEscapes("run_indicators_cached", args, verbose, selection)
           ELSE /\ runner_call' = [function |-> "run_indicators_cached", args |-> args,
                                   verbose |-> verbose]
                /\ selected' = selection.value
                /\ cache' = <<>>
                /\ bound' = wrapping.binding
                /\ wrapped_modules' = wrapping.wrapped_modules
                /\ runner_pc' = "wrapped"
                /\ UNCHANGED <<position, result_rows, invoked, wrapper_calls,
                               runner_raised>>
    /\ UNCHANGED <<formatter_vars, indicator_vars>>

\* `if verbose: print("... Caching enabled ...")`, before the try: the
\* print may raise (a stream that cannot encode the check mark, a closed
\* stream), and nothing catches it
AnnounceCaching(print_raises) ==
    /\ runner_pc = "wrapped"
    /\ print_raises => runner_call.verbose
    /\ IF print_raises
       THEN /\ runner_pc' = "escaped"
            /\ runner_raised' = Error("UnicodeEncodeError", "print")
       ELSE /\ runner_pc' = "running"
            /\ UNCHANGED runner_raised
    /\ UNCHANGED <<formatter_vars, indicator_vars, runner_call, selected, position,
                   result_rows, invoked, bound, wrapped_modules, cache, wrapper_calls>>

\* the columns of a row that both runners write; run_indicators adds the
\* module, the error type and the missing arguments
Row(function, spec, status, error_type, missing, error, result) ==
    IF function = "run_indicators"
    THEN [dimension |-> spec.dimension, granularity |-> spec.granularity,
          module |-> spec.module, indicator_name |-> spec.name,
          status |-> status, error_type |-> error_type, missing_args |-> missing,
          error |-> error, result |-> result]
    ELSE [dimension |-> spec.dimension, granularity |-> spec.granularity,
          indicator_name |-> spec.name,
          status |-> status, error |-> error, result |-> result]

\* a variant of the loop body that lets the exception of an indicator go,
\* as an exception that is no Exception would
BodyUncaught(function, spec, args_dict, memo, binding, log) ==
    LET kwargs == Kwargs(spec, args_dict, function = "run_indicators")
        missing == MissingRequiredArgs(spec, kwargs)
        call == Invoke(memo, binding, log, spec, kwargs)
    IN  IF missing # <<>>
        THEN [row |-> Row(function, spec, "error", "missing_args", missing,
                          Error("Missing required args", missing), None),
              invoked |-> FALSE, memo |-> memo, escapes |-> FALSE]
        ELSE IF call.outcome.raised = None
        THEN [row |-> Row(function, spec, "success", "", <<>>, NoError,
                          call.outcome.value),
              invoked |-> TRUE, memo |-> call.memo, escapes |-> FALSE]
        ELSE [row |-> None, invoked |-> TRUE, memo |-> call.memo, escapes |-> TRUE]

\* the body of `for spec in selected`: the row it appends, whether it
\* invoked the indicator, and the memo after it; Exception has every error
\* an indicator of the model raises
Body(function, spec, args_dict, memo, binding, log) ==
    LET kwargs == Kwargs(spec, args_dict, function = "run_indicators")
        missing == MissingRequiredArgs(spec, kwargs)
        call == Invoke(memo, binding, log, spec, kwargs)
    IN  IF missing # <<>>
        THEN [row |-> Row(function, spec, "error", "missing_args", missing,
                          Error("Missing required args", missing), None),
              invoked |-> FALSE, memo |-> memo, escapes |-> FALSE]
        ELSE IF call.outcome.raised = None
        THEN [row |-> Row(function, spec, "success", "", <<>>, NoError,
                          call.outcome.value),
              invoked |-> TRUE, memo |-> call.memo, escapes |-> FALSE]
        ELSE [row |-> Row(function, spec, "error", "exception", <<>>,
                          Error(call.outcome.raised, call.outcome.names), None),
              invoked |-> TRUE, memo |-> call.memo, escapes |-> FALSE]

\* `finally: for module, originals in wrapped_modules.items(): unwrap_module_functions(...)`
Finally(binding, items) == UnwrapAll(binding, items, Len(items))

\* one pass of the loop of either runner
RunNext ==
    /\ runner_pc = "running"
    /\ position <= Len(selected)
    /\ LET body == Body(runner_call.function, selected[position],
                        ArgsDict(runner_call.args),
                        [cache |-> cache, calls |-> wrapper_calls],
                        bound, indicator_log)
       IN  /\ invoked' = IF body.invoked THEN invoked \cup {position} ELSE invoked
           /\ cache' = body.memo.cache
           /\ wrapper_calls' = body.memo.calls
           /\ IF body.escapes
              THEN /\ runner_pc' = "escaped"
                   /\ runner_raised' = Error("Exception", selected[position].name)
                   /\ bound' = Finally(bound, wrapped_modules)
                   /\ UNCHANGED <<result_rows, position>>
              ELSE /\ result_rows' = Append(result_rows, body.row)
                   /\ position' = position + 1
                   /\ UNCHANGED <<runner_pc, runner_raised, bound>>
    /\ UNCHANGED <<formatter_vars, indicator_vars, runner_call, selected,
                   wrapped_modules>>

\* run_indicators after its loop: return pd.DataFrame(rows)
ReturnRows ==
    /\ runner_pc = "running"
    /\ runner_call.function = "run_indicators"
    /\ position > Len(selected)
    /\ runner_pc' = "returned"
    /\ UNCHANGED <<formatter_vars, indicator_vars, runner_call, selected, position,
                   result_rows, invoked, bound, wrapped_modules, cache,
                   wrapper_calls, runner_raised>>

\* run_indicators_cached after its loop: the cache statistics if verbose
\* (a print that may raise), the return, and the finally clause either way
ReturnCached(print_raises) ==
    /\ runner_pc = "running"
    /\ runner_call.function = "run_indicators_cached"
    /\ position > Len(selected)
    /\ print_raises => runner_call.verbose
    /\ IF print_raises
       THEN /\ runner_pc' = "escaped"
            /\ runner_raised' = Error("OSError", "print")
       ELSE /\ runner_pc' = "returned"
            /\ UNCHANGED runner_raised
    /\ bound' = Finally(bound, wrapped_modules)
    /\ UNCHANGED <<formatter_vars, indicator_vars, runner_call, selected, position,
                   result_rows, invoked, wrapped_modules, cache, wrapper_calls>>

RunnerNext ==
    \/ \E args \in ArgumentBundles, dimension \in DimensionFilters,
          granularity \in GranularityFilters :
            RunIndicators(args, dimension, granularity)
    \/ \E args \in ArgumentBundles, dimension \in DimensionFilters,
          granularity \in GranularityFilters, verbose \in BOOLEAN :
            RunIndicatorsCached(args, dimension, granularity, verbose)
    \/ \E print_raises \in BOOLEAN : AnnounceCaching(print_raises)
    \/ RunNext
    \/ ReturnRows
    \/ \E print_raises \in BOOLEAN : ReturnCached(print_raises)

RunnerSpec == RunnerInit /\ [][RunnerNext]_vars


(***************************************************************************)
(* Properties of the runners.                                              *)
(***************************************************************************)
\* the parameters of a spec for which the bundle of the call has no value
\* that is not None
Unsupplied(spec) ==
    {spec.parameters[j] : j \in {j \in 1..Len(spec.parameters) :
                                    runner_call.args[spec.parameters[j]] = Absent}}

Listed(names) == {names[j] : j \in 1..Len(names)}

\* C29: an indicator with a required parameter that the bundle gives no
\* non-null value for is not invoked, and its row has the status "error"
\* and lists exactly the missing parameters, each once (under the error
\* type "missing_args" in run_indicators); an indicator whose parameters are
\* all supplied is invoked, and its row is no missing-arguments row.
C29_MissingArgsNeverInvoked ==
    \A k \in 1..Len(result_rows) :
        LET row == result_rows[k]
            cached == runner_call.function = "run_indicators_cached"
        IN  IF Unsupplied(selected[k]) # {}
            THEN /\ k \notin invoked
                 /\ row.status = "error"
                 /\ row.error.raised = "Missing required args"
                 /\ Listed(row.error.names) = Unsupplied(selected[k])
                 /\ Len(row.error.names) = Cardinality(Unsupplied(selected[k]))
                 /\ cached \/ /\ row.error_type = "missing_args"
                              /\ row.missing_args = row.error.names
            ELSE /\ k \in invoked
                 /\ row.error.raised # "Missing required args"
                 /\ cached \/ /\ row.error_type # "missing_args"
                              /\ row.missing_args = <<>>

\* C29 witness: run_indicators was given a case id and no set of automated
\* activities; automated_activity_count was not invoked and its row lists
\* that one parameter, while activity_and_role_count_ratio was invoked
C29_Witness ==
    /\ runner_call.function = "run_indicators"
    /\ runner_pc = "returned"
    /\ \E k \in 1..Len(result_rows) :
          /\ selected[k].name = "automated_activity_count"
          /\ result_rows[k].error_type = "missing_args"
          /\ result_rows[k].missing_args = <<"automated_activities">>
          /\ k \notin invoked
    /\ \E k \in 1..Len(result_rows) :
          /\ selected[k].name = "activity_and_role_count_ratio"
          /\ k \in invoked


\* what the indicator at position k of the selection gives when it is
\* called with the arguments of the bundle while no module is wrapped
DirectOutcome(k) ==
    Invoke([cache |-> <<>>, calls |-> <<>>], Originals, indicator_log, selected[k],
           Kwargs(selected[k], ArgsDict(runner_call.args), TRUE)).outcome

\* the position in the registry of the indicator a row is about
RegistryIndex(row) ==
    CHOOSE j \in 1..Len(INDICATOR_REGISTRY) :
        /\ INDICATOR_REGISTRY[j].dimension = row.dimension
        /\ INDICATOR_REGISTRY[j].granularity = row.granularity
        /\ INDICATOR_REGISTRY[j].name = row.indicator_name

\* C24: either runner appends one row for each indicator it has gone
\* through, the k-th row about the k-th selected indicator, rows in registry
\* order, and has a row for every selected indicator when it returns; an
\* invoked indicator that raises gets a row with status "error", and its
\* exception never escapes the runner, so the indicators after it are run.
C24_FailureIsolation ==
    /\ runner_raised.raised # "Exception"
    /\ runner_pc \in {"running", "returned"} => Len(result_rows) = position - 1
    /\ runner_pc = "returned" => Len(result_rows) = Len(selected)
    /\ \A k \in 1..Len(result_rows) :
          /\ result_rows[k].dimension = selected[k].dimension
          /\ result_rows[k].granularity = selected[k].granularity
          /\ result_rows[k].indicator_name = selected[k].name
          /\ \A j \in 1..(k - 1) :
                RegistryIndex(result_rows[j]) < RegistryIndex(result_rows[k])
          /\ (k \in invoked /\ DirectOutcome(k).raised # None) =>
                /\ result_rows[k].status = "error"
                /\ result_rows[k].result = None
                /\ runner_call.function = "run_indicators" =>
                      result_rows[k].error_type = "exception"

\* C24 witness: run_indicators returned the rows of the whole registry;
\* directly_follows_relations_count raised NotImplementedError and has an
\* error row, and optionality, run after it, succeeded
C24_Witness ==
    /\ runner_call.function = "run_indicators"
    /\ runner_pc = "returned"
    /\ Len(result_rows) = Len(INDICATOR_REGISTRY)
    /\ result_rows[2].indicator_name = "directly_follows_relations_count"
    /\ result_rows[2].status = "error"
    /\ result_rows[2].error.raised = "NotImplementedError"
    /\ 2 \in invoked
    /\ result_rows[3].indicator_name = "optionality"
    /\ result_rows[3].status = "success"


\* the call of run_indicators_cached is over: it returned, or an exception
\* escaped it
CachedRunOver ==
    /\ runner_call.function = "run_indicators_cached"
    /\ runner_pc \in {"returned", "escaped"}

\* C25: once run_indicators_cached is over, whether it returned or an
\* exception escaped it, every public function of every indicator module is
\* bound to its original again.
C25_OriginalsRestored == CachedRunOver => bound = Originals

\* the calls of run_indicators_cached that reach its try statement do
\* restore the originals: those that returned, and those whose exception
\* came from select_indicators or from the statistics after the loop
C25_RestoredPastTheTry ==
    (CachedRunOver /\ runner_raised.raised # "UnicodeEncodeError") => bound = Originals

\* the same call, left by the exception of the print before the try
C25_LeftWrapped ==
    /\ CachedRunOver
    /\ runner_raised.raised = "UnicodeEncodeError"
    /\ \A k \in 1..Len(ModulesToWrap) :
          \A name \in PublicFunctions(ModulesToWrap[k]) :
              bound[ModulesToWrap[k]][name] = "wrapper"

\* a call that returned after wrappers were used
C25_ReturnedRestored ==
    /\ CachedRunOver
    /\ runner_pc = "returned"
    /\ Len(wrapper_calls) > 0
    /\ bound = Originals


\* two outcomes are the same: both returned the same value, or both raised
\* the same error with the same message
SameOutcome(a, b) ==
    /\ a.raised = b.raised
    /\ a.raised = None => a.value = b.value
    /\ a.raised # None => a.names = b.names

\* C28: every call made through a cached wrapper gives what the original
\* function gives for the same event log and arguments, whether the
\* argument is a case id or a list or set of case ids.
C28_CachingTransparent ==
    \A j \in 1..Len(wrapper_calls) :
        SameOutcome(wrapper_calls[j].through, wrapper_calls[j].direct)

\* with a str argument the wrapper is transparent, on a miss and on a hit
C28_TransparentForStr ==
    \A j \in 1..Len(wrapper_calls) :
        wrapper_calls[j].type = "str" =>
            SameOutcome(wrapper_calls[j].through, wrapper_calls[j].direct)

\* a call through the wrapper of case_count with a list of case ids raised
\* TypeError where the original returns, and the row of
\* expected_activity_count says "error" where a direct call succeeds
C28_ListArgumentFails ==
    /\ runner_call.function = "run_indicators_cached"
    /\ \E j \in 1..Len(wrapper_calls) :
          /\ wrapper_calls[j].name = "case_count"
          /\ wrapper_calls[j].type = "list"
          /\ wrapper_calls[j].through.raised = "TypeError"
          /\ wrapper_calls[j].direct.raised = None
    /\ \E k \in 1..Len(result_rows) :
          /\ selected[k].name = "expected_activity_count"
          /\ result_rows[k].status = "error"
          /\ DirectOutcome(k).raised = None

\* a call through a wrapper was answered from the cache
C28_CacheHit ==
    \E j \in 1..Len(wrapper_calls) :
        /\ wrapper_calls[j].hit
        /\ wrapper_calls[j].name = "activity_count"
        /\ wrapper_calls[j].through.raised = None
====
